---- MODULE Spec2Model ----
(***************************************************************************)
(* Duplicate-detection core of RAG-smart-folder: the detection engine,     *)
(* the three detectors and the results processor (consolidator) of         *)
(* backend/app/core/detection.                                             *)
(*                                                                         *)
(* Numbers that are floats in the source (confidence, similarity,          *)
(* thresholds) are exact rationals [n, d] here; round(x, 1) is modelled by *)
(* Round1.                                                                 *)
(***************************************************************************)
EXTENDS Integers, Sequences, FiniteSets, TLC

(***************************************************************************)
(* Bounds of the model.                                                    *)
(***************************************************************************)
NumFiles == 4
MaxSlots == 6
MaxGroupSize == 4
NumRunFiles == 3
MaxAlgorithms == 1

FileIds == 1..NumFiles

NoneInt == -1
NoneStr == "None"

(***************************************************************************)
(* Exact rational arithmetic for the float-valued fields.                  *)
(***************************************************************************)
RECURSIVE GCD(_, _)
GCD(a, b) == IF b = 0 THEN a ELSE GCD(b, a % b)

Rat(n, d) == LET g == GCD(n, d) IN [n |-> n \div g, d |-> d \div g]

RLeq(a, b) == a.n * b.d <= b.n * a.d
RLess(a, b) == a.n * b.d < b.n * a.d
RAdd(a, b) == Rat(a.n * b.d + b.n * a.d, a.d * b.d)
RMax(a, b) == IF RLess(a, b) THEN b ELSE a
RMin(a, b) == IF RLess(b, a) THEN b ELSE a

\* round(x, 1) on a float: the nearest multiple of 0.1.  An exact tie x.x5 goes
\* to the even tenth when the float holds it exactly (x.25, x.75, denominator 4);
\* any other tie is not representable in binary, the float lies just off the
\* midpoint on a side that depends on the operands, and the model rounds it up.
Round1(a) ==
    LET q == (10 * a.n) \div a.d
        r == (10 * a.n) % a.d
        t == IF 2 * r < a.d THEN q
             ELSE IF 2 * r > a.d THEN q + 1
             ELSE IF a.d = 4 /\ q % 2 = 0 THEN q ELSE q + 1
    IN Rat(t, 10)

Zero == Rat(0, 1)
Hundred == Rat(100, 1)

RECURSIVE RSum(_)
RSum(s) == IF s = <<>> THEN Zero ELSE RAdd(Head(s), RSum(Tail(s)))

RECURSIVE SeqSum(_)
SeqSum(s) == IF s = <<>> THEN 0 ELSE Head(s) + SeqSum(Tail(s))

Range(s) == {s[i] : i \in 1..Len(s)}

(***************************************************************************)
(* models.py: DetectionConfig and its validation.                          *)
(***************************************************************************)
DefaultConfig ==
    [perceptual_threshold |-> Rat(80, 1),
     perceptual_hash_size |-> 16,
     metadata_fields |-> <<"file_size", "modified_at">>,
     size_tolerance |-> 0,
     time_tolerance |-> 60,
     use_color_histogram |-> TRUE,
     use_edge_detection |-> TRUE,
     feature_weight_perceptual |-> Rat(6, 10),
     feature_weight_color |-> Rat(3, 10),
     feature_weight_edge |-> Rat(1, 10),
     min_confidence_threshold |-> Rat(50, 1),
     max_results_per_group |-> 100,
     enable_cross_algorithm_validation |-> TRUE]

\* validate() accepting max_results_per_group = 0
validate_zero_results(c) ==
    (IF RLeq(Zero, c.perceptual_threshold) /\ RLeq(c.perceptual_threshold, Hundred)
        THEN {} ELSE {"perceptual_threshold must be between 0 and 100"})
    \cup (IF c.perceptual_hash_size \in {8, 16, 32}
        THEN {} ELSE {"perceptual_hash_size must be 8, 16, or 32"})
    \cup (IF c.size_tolerance < 0 THEN {"size_tolerance must be non-negative"} ELSE {})
    \cup (IF c.time_tolerance < 0 THEN {"time_tolerance must be non-negative"} ELSE {})
    \cup (IF RLeq(Zero, c.min_confidence_threshold)
             /\ RLeq(c.min_confidence_threshold, Hundred)
        THEN {} ELSE {"min_confidence_threshold must be between 0 and 100"})
    \cup (IF c.max_results_per_group < 0
        THEN {"max_results_per_group must be positive"} ELSE {})
    \cup (LET w == RAdd(RAdd(c.feature_weight_perceptual, c.feature_weight_color),
                        c.feature_weight_edge)
              diff == IF w.n >= w.d THEN w.n - w.d ELSE w.d - w.n
          IN IF diff * 100 > w.d THEN {"feature weights must sum to 1.0"} ELSE {})

\* DetectionConfig.validate(): the set of violated constraints
validate(c) ==
    (IF RLeq(Zero, c.perceptual_threshold) /\ RLeq(c.perceptual_threshold, Hundred)
        THEN {} ELSE {"perceptual_threshold must be between 0 and 100"})
    \cup (IF c.perceptual_hash_size \in {8, 16, 32}
        THEN {} ELSE {"perceptual_hash_size must be 8, 16, or 32"})
    \cup (IF c.size_tolerance < 0 THEN {"size_tolerance must be non-negative"} ELSE {})
    \cup (IF c.time_tolerance < 0 THEN {"time_tolerance must be non-negative"} ELSE {})
    \cup (IF RLeq(Zero, c.min_confidence_threshold)
             /\ RLeq(c.min_confidence_threshold, Hundred)
        THEN {} ELSE {"min_confidence_threshold must be between 0 and 100"})
    \cup (IF c.max_results_per_group <= 0
        THEN {"max_results_per_group must be positive"} ELSE {})
    \cup (LET w == RAdd(RAdd(c.feature_weight_perceptual, c.feature_weight_color),
                        c.feature_weight_edge)
              \* abs(total_weight - 1.0) > 0.01
              diff == IF w.n >= w.d THEN w.n - w.d ELSE w.d - w.n
          IN IF diff * 100 > w.d THEN {"feature weights must sum to 1.0"} ELSE {})

(***************************************************************************)
(* File Records.  corpus[i] holds the fields of file i that the pipeline   *)
(* only reads; fstate[i] holds the fields it writes in place.  A group     *)
(* holds its files by reference: as the sequence of their ids.             *)
(***************************************************************************)
\* call, ret: a function of the pipeline called directly, with its arguments,
\* and what it returned
\* lazyAnnotations: whether the interpreter defers the evaluation of function
\* annotations (Python 3.14 and later) or evaluates them when the def runs
\* hashAvailable: whether the imagehash library can be imported
VARIABLES corpus, fstate, lazyAnnotations, hashAvailable,
          rawGroups, consConfig, consResult, phase,
          engineConfig, algorithms, callLog, results,
          call, ret

vars == <<corpus, fstate, lazyAnnotations, hashAvailable,
          rawGroups, consConfig, consResult, phase,
          engineConfig, algorithms, callLog, results,
         call, ret>>

\* no function has been called directly
NoCall == [op |-> "none"]


\* DuplicateFile as the scanner constructs it
DuplicateFile(size, sha, phash, ftype, w, h, created, modified, path) ==
    [file_size |-> size, sha256 |-> sha, perceptual_hash |-> phash,
     file_type |-> ftype, width |-> w, height |-> h,
     created_at |-> created, modified_at |-> modified, file_path |-> path]

\* a path, reduced to what _calculate_path_score reads of it
Path(penalty, depth, namelen) ==
    [empty |-> FALSE, penalty |-> penalty, depth |-> depth, namelen |-> namelen]
EmptyPath == [empty |-> TRUE, penalty |-> FALSE, depth |-> 0, namelen |-> 0]

FreshFile == [is_original |-> FALSE, confidence_score |-> Zero]

DuplicateGroup(id, method, conf, sim, files) ==
    [id |-> id, detection_method |-> method, confidence_score |-> conf,
     similarity_percentage |-> sim, files |-> files]

\* DuplicateGroup.__post_init__ accepts the file list
ValidGroupFiles(files) == Len(files) >= 2

FileIdSet(g) == Range(g.files)

total_size(g, c) == SeqSum([i \in 1..Len(g.files) |-> c[g.files[i]].file_size])

(***************************************************************************)
(* engine.py: ResultsProcessor.                                            *)
(***************************************************************************)
\* _merge_groups with the weighted sum left undivided by total_weight
_merge_groups_undivided(target, source) ==
    LET target_file_ids == FileIdSet(target)
        added == SelectSeq(source.files, LAMBDA f : f \notin target_file_ids)
        tc == target.confidence_score
        sc == source.confidence_score
        weighted == Rat(tc.n * Len(target.files) * sc.d + sc.n * Len(source.files) * tc.d,
                        tc.d * sc.d)
    IN [target EXCEPT
           !.files = target.files \o added,
           !.confidence_score = Round1(weighted),
           !.similarity_percentage =
               RMax(target.similarity_percentage, source.similarity_percentage)]

\* _merge_groups with the target's weight taken after the source's files
\* were appended
_merge_groups_weight_after(target, source) ==
    LET target_file_ids == FileIdSet(target)
        added == SelectSeq(source.files, LAMBDA f : f \notin target_file_ids)
        target_weight == Len(target.files \o added)
        source_weight == Len(source.files)
        total_weight == target_weight + source_weight
        tc == target.confidence_score
        sc == source.confidence_score
        weighted == Rat(tc.n * target_weight * sc.d + sc.n * source_weight * tc.d,
                        tc.d * sc.d * total_weight)
    IN [target EXCEPT
           !.files = target.files \o added,
           !.confidence_score = IF total_weight > 0 THEN Round1(weighted) ELSE tc,
           !.similarity_percentage =
               RMax(target.similarity_percentage, source.similarity_percentage)]

\* _merge_groups: the target group after the source is merged into it
_merge_groups(target, source) ==
    LET target_file_ids == FileIdSet(target)
        added == SelectSeq(source.files, LAMBDA f : f \notin target_file_ids)
        target_weight == Len(target.files)
        source_weight == Len(source.files)
        total_weight == target_weight + source_weight
        tc == target.confidence_score
        sc == source.confidence_score
        weighted == Rat(tc.n * target_weight * sc.d + sc.n * source_weight * tc.d,
                        tc.d * sc.d * total_weight)
    IN [target EXCEPT
           !.files = target.files \o added,
           !.confidence_score = IF total_weight > 0 THEN Round1(weighted) ELSE tc,
           !.similarity_percentage =
               RMax(target.similarity_percentage, source.similarity_percentage)]

\* index of the first group of merged whose files intersect ids, 0 if none
RECURSIVE FirstOverlap(_, _, _)
FirstOverlap(merged, ids, k) ==
    IF k > Len(merged) THEN 0
    ELSE IF ids \cap FileIdSet(merged[k]) # {} THEN k
    ELSE FirstOverlap(merged, ids, k + 1)

RECURSIVE MergeLoop(_, _, _, _)
MergeLoop(groups, i, merged, processed_files) ==
    IF i > Len(groups) THEN merged
    ELSE LET group == groups[i]
             group_file_ids == FileIdSet(group)
             k == FirstOverlap(merged, group_file_ids, 1)
         IN IF group_file_ids \cap processed_files # {} /\ k # 0
            THEN MergeLoop(groups, i + 1,
                           [merged EXCEPT ![k] = _merge_groups(merged[k], group)],
                           processed_files)
            ELSE MergeLoop(groups, i + 1, Append(merged, group),
                           processed_files \cup group_file_ids)

_merge_overlapping_groups(groups) ==
    IF Len(groups) <= 1 THEN groups ELSE MergeLoop(groups, 1, <<>>, {})

\* ranking_key without its third component, the total size
KeyGreater_no_size(a, b, c) ==
    \/ RLess(b.confidence_score, a.confidence_score)
    \/ /\ a.confidence_score = b.confidence_score
       /\ Len(a.files) > Len(b.files)

\* ranking_key(a) > ranking_key(b), as tuples
KeyGreater(a, b, c) ==
    \/ RLess(b.confidence_score, a.confidence_score)
    \/ /\ a.confidence_score = b.confidence_score
       /\ \/ Len(a.files) > Len(b.files)
          \/ /\ Len(a.files) = Len(b.files)
             /\ total_size(a, c) > total_size(b, c)

\* stable insertion of g into a list sorted by descending key
RECURSIVE InsertRanked(_, _, _)
InsertRanked(sorted, g, c) ==
    IF sorted = <<>> THEN <<g>>
    ELSE IF KeyGreater(g, Head(sorted), c) THEN <<g>> \o sorted
    ELSE <<Head(sorted)>> \o InsertRanked(Tail(sorted), g, c)

RECURSIVE RankLoop(_, _, _, _)
RankLoop(groups, i, sorted, c) ==
    IF i > Len(groups) THEN sorted
    ELSE RankLoop(groups, i + 1, InsertRanked(sorted, groups[i], c), c)

\* _rank_groups: sorted(groups, key=ranking_key, reverse=True)
_rank_groups(groups, c) == RankLoop(groups, 1, <<>>, c)

\* _calculate_path_score, in tenths
_calculate_path_score(path) ==
    IF path.empty THEN 0
    ELSE LET base == 5
             s1 == IF path.penalty THEN base - 2 ELSE base
             s2 == IF path.depth <= 2 THEN s1 + 2
                   ELSE IF path.depth >= 5 THEN s1 - 1 ELSE s1
             s3 == IF path.namelen <= 20 THEN s2 + 1
                   ELSE IF path.namelen >= 50 THEN s2 - 1 ELSE s2
         IN IF s3 < 0 THEN 0 ELSE IF s3 > 10 THEN 10 ELSE s3

SetMin(S) == CHOOSE x \in S : \A y \in S : x <= y
SetMax(S) == CHOOSE x \in S : \A y \in S : x >= y

\* created_at if present, else modified_at, else None
FileTime(f) ==
    IF f.created_at # NoneInt THEN f.created_at
    ELSE IF f.modified_at # NoneInt THEN f.modified_at
    ELSE NoneInt

PixelNorm == 1920 * 1080

\* the score _suggest_original gives file id in a group with these files
OriginalScore(id, files, c) ==
    LET members == Range(files)
        sizes == {c[i].file_size : i \in {j \in members : c[j].file_size # 0}}
        times == {FileTime(c[i]) : i \in {j \in members : FileTime(c[j]) # NoneInt}}
        min_size == IF sizes = {} THEN 0 ELSE SetMin(sizes)
        max_size == IF sizes = {} THEN 0 ELSE SetMax(sizes)
        min_time == IF times = {} THEN 0 ELSE SetMin(times)
        max_time == IF times = {} THEN 0 ELSE SetMax(times)
        f == c[id]
        file_time == FileTime(f)
        time_part == IF file_time # NoneInt /\ file_time # 0 /\ max_time > min_time
                     THEN Rat(40 * (max_time - file_time), max_time - min_time)
                     ELSE Zero
        size_part == IF f.file_size # 0 /\ max_size > min_size
                     THEN Rat(30 * (f.file_size - min_size), max_size - min_size)
                     ELSE Zero
        hasDims == f.width # NoneInt /\ f.width # 0 /\ f.height # NoneInt /\ f.height # 0
        pixel_count == f.width * f.height
        quality_part == IF hasDims
                        THEN (IF pixel_count >= PixelNorm THEN Rat(20, 1)
                              ELSE Rat(20 * pixel_count, PixelNorm))
                        ELSE Zero
        path_part == Rat(_calculate_path_score(f.file_path), 1)
    IN RAdd(RAdd(time_part, size_part), RAdd(quality_part, path_part))

\* position in files of the first file with the highest score
RECURSIVE BestLoop(_, _, _, _)
BestLoop(files, i, best, c) ==
    IF i > Len(files) THEN best
    ELSE IF best = 0
            \/ RLess(OriginalScore(files[best], files, c), OriginalScore(files[i], files, c))
         THEN BestLoop(files, i + 1, i, c)
         ELSE BestLoop(files, i + 1, best, c)

\* _suggest_original: the File Records after the group's nomination
_suggest_original(group, fs, c) ==
    IF group.files = <<>> THEN fs
    ELSE LET best_file == group.files[BestLoop(group.files, 1, 0, c)]
         IN [i \in DOMAIN fs |->
                IF i = best_file THEN [fs[i] EXCEPT !.is_original = TRUE]
                ELSE IF i \in FileIdSet(group) THEN [fs[i] EXCEPT !.is_original = FALSE]
                ELSE fs[i]]

RECURSIVE SuggestLoop(_, _, _, _)
SuggestLoop(groups, i, fs, c) ==
    IF i > Len(groups) THEN fs
    ELSE SuggestLoop(groups, i + 1, _suggest_original(groups[i], fs, c), c)

\* the limit loop keeping the last max_results_per_group files of a group
LimitGroup_keeps_last(group, config) ==
    IF Len(group.files) > config.max_results_per_group
    THEN [group EXCEPT !.files = SubSeq(group.files,
                                        Len(group.files) - config.max_results_per_group + 1,
                                        Len(group.files))]
    ELSE group

\* the "limit results per group" loop of consolidate_results
LimitGroup(group, config) ==
    IF Len(group.files) > config.max_results_per_group
    THEN [group EXCEPT !.files = SubSeq(group.files, 1, config.max_results_per_group)]
    ELSE group

\* the confidence filter of consolidate_results
FilterByConfidence(groups, config) ==
    SelectSeq(groups, LAMBDA g : RLeq(config.min_confidence_threshold, g.confidence_score))

\* the groups consolidate_results nominates originals for: filtered, merged, ranked
RankedGroups(groups, config, c) ==
    LET filtered_groups == FilterByConfidence(groups, config)
        merged == IF config.enable_cross_algorithm_validation
                  THEN _merge_overlapping_groups(filtered_groups)
                  ELSE filtered_groups
    IN _rank_groups(merged, c)

\* validate_consolidation_results, first loop: one issue for every group that
\* shares file ids with the groups before it
RECURSIVE OverlapIssues(_, _, _)
OverlapIssues(groups, i, all_file_ids) ==
    IF i > Len(groups) THEN <<>>
    ELSE LET group_file_ids == FileIdSet(groups[i])
             overlap == all_file_ids \cap group_file_ids
         IN (IF overlap # {}
             THEN <<[kind |-> "appear in multiple groups", subject |-> overlap]>>
             ELSE <<>>)
            \o OverlapIssues(groups, i + 1, all_file_ids \cup group_file_ids)

\* the confidence test of validate_consolidation_results made strict
ConfidenceValid_strict(confidence_score) ==
    RLess(Zero, confidence_score) /\ RLess(confidence_score, Hundred)

\* 0 <= group.confidence_score <= 100
ConfidenceValid(confidence_score) ==
    RLeq(Zero, confidence_score) /\ RLeq(confidence_score, Hundred)

\* validate_consolidation_results, second loop: the issues of one group
ValidityIssues(group, fs) ==
    LET originals == SelectSeq(group.files, LAMBDA f : fs[f].is_original)
    IN (IF Len(group.files) < 2
        THEN <<[kind |-> "fewer than 2 files", subject |-> group.id]>> ELSE <<>>)
       \o (IF ~ConfidenceValid(group.confidence_score)
           THEN <<[kind |-> "invalid confidence score", subject |-> group.id]>> ELSE <<>>)
       \o (IF Len(originals) > 1
           THEN <<[kind |-> "multiple files marked as original", subject |-> group.id]>>
           ELSE <<>>)

RECURSIVE GroupIssues(_, _, _)
GroupIssues(groups, i, fs) ==
    IF i > Len(groups) THEN <<>>
    ELSE ValidityIssues(groups[i], fs) \o GroupIssues(groups, i + 1, fs)

\* validate_consolidation_results: the list of issues
validate_consolidation_results(groups, fs) ==
    OverlapIssues(groups, 1, {}) \o GroupIssues(groups, 1, fs)

\* consolidate_results after _rank_groups: originals nominated, groups limited
AfterRanking(ranked_groups, config, fs, c) ==
    [raised |-> FALSE,
     groups |-> [i \in 1..Len(ranked_groups) |-> LimitGroup(ranked_groups[i], config)],
     ranked |-> ranked_groups,
     fstate |-> SuggestLoop(ranked_groups, 1, fs, c)]

\* consolidate_results: whether it raised, the returned groups and the File
\* Records afterwards.  engine.py never imports Tuple, which the annotation of
\* ranking_key inside _rank_groups names: where annotations are evaluated when
\* the def statement runs, _rank_groups raises NameError on every call.
\* (ranked holds ranked_groups as _rank_groups returned it, before the
\* nomination and the limit loops)
consolidate_results(groups, config, fs, c, lazy) ==
    IF groups = <<>>
    THEN [raised |-> FALSE, groups |-> <<>>, ranked |-> <<>>, fstate |-> fs]
    ELSE IF ~lazy
    THEN [raised |-> TRUE, groups |-> <<>>, ranked |-> <<>>, fstate |-> fs]
    ELSE AfterRanking(RankedGroups(groups, config, c), config, fs, c)

(***************************************************************************)
(* algorithms/sha256_detector.py: SHA256Detector.                          *)
(***************************************************************************)
\* `s and s.strip()` for an optional string
NonBlank(s) == s \notin {NoneStr, "", " "}

SHA256_can_process_file(f) == NonBlank(f.sha256)

\* the files of the list that carry the same hash as files[i], in list order
SameHash(files, i, c) ==
    SelectSeq(files, LAMBDA j : NonBlank(c[j].sha256) /\ c[j].sha256 = c[files[i]].sha256)

\* hash_groups.items(): one file list per hash, in order of first appearance
RECURSIVE HashGroupsLoop(_, _, _)
HashGroupsLoop(files, i, c) ==
    IF i > Len(files) THEN <<>>
    ELSE LET f == c[files[i]]
             first == /\ NonBlank(f.sha256)
                      /\ \A k \in 1..(i - 1) : c[files[k]].sha256 # f.sha256
         IN (IF first THEN <<SameHash(files, i, c)>> ELSE <<>>)
            \o HashGroupsLoop(files, i + 1, c)

\* SHA256Detector.detect that also returns the hashes held by one file
SHA256_detect_singletons(files, fs, c) ==
    LET lists == HashGroupsLoop(files, 1, c)
    IN [groups |-> [k \in 1..Len(lists) |->
                       DuplicateGroup(100 + k, "sha256", Hundred, Hundred, lists[k])],
        fstate |-> fs]

\* SHA256Detector.detect setting the confidence of every file that carries a
\* hash, grouped or not
SHA256_detect_marks_all(files, fs, c) ==
    LET lists == SelectSeq(HashGroupsLoop(files, 1, c), LAMBDA l : Len(l) >= 2)
    IN [groups |-> [k \in 1..Len(lists) |->
                       DuplicateGroup(100 + k, "sha256", Hundred, Hundred, lists[k])],
        fstate |-> [i \in DOMAIN fs |->
                       IF i \in Range(files) /\ NonBlank(c[i].sha256)
                       THEN [fs[i] EXCEPT !.confidence_score = Hundred]
                       ELSE fs[i]]]

\* SHA256Detector.detect: the groups and the File Records afterwards
SHA256_detect(files, fs, c) ==
    LET lists == SelectSeq(HashGroupsLoop(files, 1, c), LAMBDA l : Len(l) >= 2)
        grouped == UNION {Range(lists[k]) : k \in 1..Len(lists)}
    IN [groups |-> [k \in 1..Len(lists) |->
                       DuplicateGroup(100 + k, "sha256", Hundred, Hundred, lists[k])],
        fstate |-> [i \in DOMAIN fs |->
                       IF i \in grouped THEN [fs[i] EXCEPT !.confidence_score = Hundred]
                       ELSE fs[i]]]

(***************************************************************************)
(* algorithms/perceptual_detector.py: PerceptualHashDetector.              *)
(* A perceptual hash is the sequence of its hex digits; a missing or empty  *)
(* hash, which the detector treats alike, is the empty sequence.           *)
(***************************************************************************)
NoHash == <<>>

\* str.lower() on the file types of the model
Lower(t) == IF t = ".JPG" THEN ".jpg" ELSE IF t = ".PNG" THEN ".png" ELSE t

ImageTypes == {".jpg", ".jpeg", ".png", ".gif", ".bmp", ".tiff", ".webp"}

Perceptual_can_process_file(f, hash_available) ==
    /\ hash_available
    /\ f.file_type \notin {NoneStr, ""}
    /\ Lower(f.file_type) \in ImageTypes
    /\ f.perceptual_hash # NoHash

\* number of one bits of a hex digit
RECURSIVE PopCount(_)
PopCount(x) == IF x = 0 THEN 0 ELSE (x % 2) + PopCount(x \div 2)

\* x XOR y of two hex digits, bit by bit
RECURSIVE DigitDiff(_, _, _)
DigitDiff(x, y, bits) ==
    IF bits = 0 THEN 0
    ELSE (IF x % 2 # y % 2 THEN 1 ELSE 0) + DigitDiff(x \div 2, y \div 2, bits - 1)

\* imagehash: h1 - h2, the Hamming distance of two hashes of the same length
HammingDistance(h1, h2) == SeqSum([i \in 1..Len(h1) |-> DigitDiff(h1[i], h2[i], 4)])

\* _calculate_similarity that counts only the bits set in hash1 and clear in hash2
_calculate_similarity_one_sided(hash1, hash2) ==
    IF hash1 = NoHash \/ hash2 = NoHash THEN Zero
    ELSE IF Len(hash1) # Len(hash2) THEN Zero
    ELSE LET hamming_distance ==
                 Cardinality({<<k, b>> \in (1..Len(hash1)) \X (0..3) :
                                 /\ (hash1[k] \div (2 ^ b)) % 2 = 1
                                 /\ (hash2[k] \div (2 ^ b)) % 2 = 0})
             max_distance == Len(hash1) * 4
         IN Round1(Rat((max_distance - hamming_distance) * 100, max_distance))

\* _calculate_similarity: the percentage, rounded to one decimal
_calculate_similarity(hash1, hash2) ==
    IF hash1 = NoHash \/ hash2 = NoHash THEN Zero
    ELSE IF Len(hash1) # Len(hash2) THEN Zero   \* imagehash raises TypeError
    ELSE LET hamming_distance == HammingDistance(hash1, hash2)
             max_distance == Len(hash1) * 4
         IN Round1(Rat((max_distance - hamming_distance) * 100, max_distance))

\* _create_similarity_group: group confidence is the mean of the similarities
_create_similarity_group(k, files, similarities) ==
    LET total == RSum(similarities)
        avg_similarity == Rat(total.n, total.d * Len(similarities))
    IN DuplicateGroup(200 + k, "perceptual_hash", avg_similarity, avg_similarity, files)

\* _find_similar_groups comparing an anchor with every later file, the files
\* already placed in a group included
RECURSIVE FindSimilarLoop_rejoin(_, _, _, _, _, _, _)
FindSimilarLoop_rejoin(files, i, processed_files, groups, sims, threshold, c) ==
    IF i > Len(files) THEN [groups |-> groups, sims |-> sims]
    ELSE IF files[i] \in processed_files
    THEN FindSimilarLoop_rejoin(files, i + 1, processed_files, groups, sims, threshold, c)
    ELSE LET file1 == files[i]
             sim(j) == _calculate_similarity(c[file1].perceptual_hash,
                                             c[files[j]].perceptual_hash)
             joins == {j \in (i + 1)..Len(files) : RLeq(threshold, sim(j))}
             members == SelectSeq([j \in 1..Len(files) |-> j],
                                  LAMBDA j : j = i \/ j \in joins)
             similar_files == [m \in 1..Len(members) |-> files[members[m]]]
             similarities == [m \in 1..Len(members) |->
                                 IF members[m] = i THEN Hundred ELSE sim(members[m])]
         IN IF joins = {}
            THEN FindSimilarLoop_rejoin(files, i + 1, processed_files, groups, sims,
                                        threshold, c)
            ELSE FindSimilarLoop_rejoin(files, i + 1,
                     processed_files \cup Range(similar_files),
                     Append(groups, _create_similarity_group(Len(groups) + 1,
                                        similar_files, similarities)),
                     [x \in DOMAIN sims \cup Range(similar_files) |->
                         IF x \in Range(similar_files)
                         THEN similarities[CHOOSE m \in 1..Len(members) :
                                               similar_files[m] = x]
                         ELSE sims[x]],
                     threshold, c)

\* _find_similar_groups: greedy clustering around anchors, in list order.
\* Returns the groups and, for every grouped file, its similarity to its anchor.
RECURSIVE FindSimilarLoop(_, _, _, _, _, _, _)
FindSimilarLoop(files, i, processed_files, groups, sims, threshold, c) ==
    IF i > Len(files) THEN [groups |-> groups, sims |-> sims]
    ELSE IF files[i] \in processed_files
    THEN FindSimilarLoop(files, i + 1, processed_files, groups, sims, threshold, c)
    ELSE LET file1 == files[i]
             sim(j) == _calculate_similarity(c[file1].perceptual_hash,
                                             c[files[j]].perceptual_hash)
             joins == {j \in (i + 1)..Len(files) :
                          /\ files[j] \notin processed_files
                          /\ RLeq(threshold, sim(j))}
             members == SelectSeq([j \in 1..Len(files) |-> j],
                                  LAMBDA j : j = i \/ j \in joins)
             similar_files == [m \in 1..Len(members) |-> files[members[m]]]
             similarities == [m \in 1..Len(members) |->
                                 IF members[m] = i THEN Hundred ELSE sim(members[m])]
         IN IF joins = {}
            THEN FindSimilarLoop(files, i + 1, processed_files, groups, sims, threshold, c)
            ELSE FindSimilarLoop(files, i + 1,
                     processed_files \cup Range(similar_files),
                     Append(groups, _create_similarity_group(Len(groups) + 1,
                                        similar_files, similarities)),
                     [x \in DOMAIN sims \cup Range(similar_files) |->
                         IF x \in Range(similar_files)
                         THEN similarities[CHOOSE m \in 1..Len(members) :
                                               similar_files[m] = x]
                         ELSE sims[x]],
                     threshold, c)

\* PerceptualHashDetector.detect
Perceptual_detect(files, fs, c, config, hash_available) ==
    LET image_files == SelectSeq(files,
                           LAMBDA i : Perceptual_can_process_file(c[i], hash_available))
        found == FindSimilarLoop(image_files, 1, {}, <<>>, <<>>,
                                 config.perceptual_threshold, c)
    IN IF ~hash_available \/ Len(image_files) < 2
       THEN [groups |-> <<>>, fstate |-> fs]
       ELSE [groups |-> found.groups,
             fstate |-> [i \in DOMAIN fs |->
                            IF i \in DOMAIN found.sims
                            THEN [fs[i] EXCEPT !.confidence_score = found.sims[i]]
                            ELSE fs[i]]]

(***************************************************************************)
(* algorithms/metadata_detector.py: MetadataDetector.                      *)
(* Timestamps are seconds; a missing value is NoneInt or NoneStr.          *)
(***************************************************************************)
IntFields == {"file_size", "width", "height", "created_at", "modified_at"}

\* getattr(file, field, None) is None
FieldIsNone(f, field) ==
    IF field \notin DOMAIN f THEN TRUE
    ELSE IF field \in IntFields THEN f[field] = NoneInt
    ELSE f[field] = NoneStr

Abs(x) == IF x < 0 THEN -x ELSE x

\* _compare_field_values with a size comparison that excludes the tolerance
_compare_field_values_strict(field, value1, value2, config) ==
    IF field = "file_size" THEN Abs(value1 - value2) < config.size_tolerance
    ELSE IF field \in {"created_at", "modified_at"}
         THEN Abs(value1 - value2) <= config.time_tolerance
    ELSE value1 = value2

_compare_field_values(field, value1, value2, config) ==
    IF field = "file_size" THEN Abs(value1 - value2) <= config.size_tolerance
    ELSE IF field \in {"created_at", "modified_at"}
         THEN Abs(value1 - value2) <= config.time_tolerance
    ELSE value1 = value2

Metadata_can_process_file(f, config) ==
    \E k \in 1..Len(config.metadata_fields) : ~FieldIsNone(f, config.metadata_fields[k])

\* the configured fields that both files carry
ComparableFields(f1, f2, config) ==
    SelectSeq(config.metadata_fields,
              LAMBDA field : ~FieldIsNone(f1, field) /\ ~FieldIsNone(f2, field))

\* _get_matching_fields
_get_matching_fields(f1, f2, config) ==
    SelectSeq(ComparableFields(f1, f2, config),
              LAMBDA field : _compare_field_values(field, f1[field], f2[field], config))

_are_metadata_similar(f1, f2, config) ==
    LET total_comparisons == Len(ComparableFields(f1, f2, config))
        similarity_score == Len(_get_matching_fields(f1, f2, config))
    IN /\ total_comparisons # 0
       /\ 2 * similarity_score >= total_comparisons

\* _calculate_pairwise_similarity, a percentage
_calculate_pairwise_similarity(f1, f2, config) ==
    LET total_fields == Len(ComparableFields(f1, f2, config))
    IN IF total_fields = 0 THEN Zero
       ELSE Rat(100 * Len(_get_matching_fields(f1, f2, config)), total_fields)

Pairs(files) == {p \in (1..Len(files)) \X (1..Len(files)) : p[1] < p[2]}

\* _calculate_field_diversity_bonus
_calculate_field_diversity_bonus(files, c, config) ==
    LET all_matching_fields ==
            UNION {Range(_get_matching_fields(c[files[p[1]]], c[files[p[2]]], config)) :
                      p \in Pairs(files)}
    IN Rat(10 * Cardinality(all_matching_fields), Len(config.metadata_fields))

RECURSIVE RSumSet(_, _, _, _)
RSumSet(S, files, c, config) ==
    IF S = {} THEN Zero
    ELSE LET p == CHOOSE q \in S : TRUE
         IN RAdd(_calculate_pairwise_similarity(c[files[p[1]]], c[files[p[2]]], config),
                 RSumSet(S \ {p}, files, c, config))

\* _calculate_group_confidence
_calculate_group_confidence(files, c, config) ==
    IF Len(files) < 2 THEN Zero
    ELSE LET comparisons == Cardinality(Pairs(files))
             total_similarity == RSumSet(Pairs(files), files, c, config)
             avg_similarity == Rat(total_similarity.n, total_similarity.d * comparisons)
             size_bonus == IF 2 * Len(files) > 10 THEN Rat(10, 1) ELSE Rat(2 * Len(files), 1)
             field_bonus == _calculate_field_diversity_bonus(files, c, config)
         IN Round1(RMin(Rat(95, 1), RAdd(RAdd(avg_similarity, size_bonus), field_bonus)))

\* _group_by_metadata_similarity that lets an assigned file join again
RECURSIVE GroupByMetadataLoop_rejoin(_, _, _, _, _, _)
GroupByMetadataLoop_rejoin(files, i, processed_files, groups, c, config) ==
    IF i > Len(files) THEN groups
    ELSE LET joins == {j \in (i + 1)..Len(files) :
                          _are_metadata_similar(c[files[i]], c[files[j]], config)}
             members == SelectSeq([j \in 1..Len(files) |-> j],
                                  LAMBDA j : j = i \/ j \in joins)
             similar_files == [m \in 1..Len(members) |-> files[members[m]]]
         IN IF joins = {}
            THEN GroupByMetadataLoop_rejoin(files, i + 1, processed_files, groups, c, config)
            ELSE GroupByMetadataLoop_rejoin(files, i + 1,
                     processed_files \cup Range(similar_files),
                     Append(groups, similar_files), c, config)

\* _group_by_metadata_similarity: greedy clustering around anchors, in list order
RECURSIVE GroupByMetadataLoop(_, _, _, _, _, _)
GroupByMetadataLoop(files, i, processed_files, groups, c, config) ==
    IF i > Len(files) THEN groups
    ELSE IF files[i] \in processed_files
    THEN GroupByMetadataLoop(files, i + 1, processed_files, groups, c, config)
    ELSE LET joins == {j \in (i + 1)..Len(files) :
                          /\ files[j] \notin processed_files
                          /\ _are_metadata_similar(c[files[i]], c[files[j]], config)}
             members == SelectSeq([j \in 1..Len(files) |-> j],
                                  LAMBDA j : j = i \/ j \in joins)
             similar_files == [m \in 1..Len(members) |-> files[members[m]]]
         IN IF joins = {}
            THEN GroupByMetadataLoop(files, i + 1, processed_files, groups, c, config)
            ELSE GroupByMetadataLoop(files, i + 1,
                     processed_files \cup Range(similar_files),
                     Append(groups, similar_files), c, config)

\* MetadataDetector.detect
Metadata_detect(files, fs, c, config) ==
    LET lists == IF Len(files) < 2 THEN <<>>
                 ELSE GroupByMetadataLoop(files, 1, {}, <<>>, c, config)
        groups == [k \in 1..Len(lists) |->
                      LET confidence_score == _calculate_group_confidence(lists[k], c, config)
                      IN DuplicateGroup(300 + k, "metadata", confidence_score,
                                        confidence_score, lists[k])]
    IN [groups |-> groups,
        fstate |-> [i \in DOMAIN fs |->
                       IF \E k \in 1..Len(groups) : i \in FileIdSet(groups[k])
                       THEN [fs[i] EXCEPT !.confidence_score =
                                groups[CHOOSE k \in 1..Len(groups) :
                                          i \in FileIdSet(groups[k])].confidence_score]
                       ELSE fs[i]]]

(***************************************************************************)
(* config.py: ConfigManager.get_config_for_mode.                           *)
(***************************************************************************)
Modes == {"exact", "similar", "metadata", "comprehensive"}

\* get_config_for_mode with the metadata preset left at the default tolerances
get_config_for_mode_default_tolerances(mode) ==
    IF mode = "exact"
    THEN [DefaultConfig EXCEPT !.perceptual_threshold = Hundred,
                               !.min_confidence_threshold = Hundred,
                               !.enable_cross_algorithm_validation = FALSE]
    ELSE IF mode = "similar"
    THEN [DefaultConfig EXCEPT !.perceptual_threshold = Rat(80, 1),
                               !.min_confidence_threshold = Rat(70, 1)]
    ELSE IF mode = "metadata"
    THEN [DefaultConfig EXCEPT !.min_confidence_threshold = Rat(60, 1),
                               !.metadata_fields =
                                   <<"file_size", "modified_at", "width", "height">>]
    ELSE DefaultConfig

get_config_for_mode(mode) ==
    IF mode = "exact"
    THEN [DefaultConfig EXCEPT !.perceptual_threshold = Hundred,
                               !.min_confidence_threshold = Hundred,
                               !.enable_cross_algorithm_validation = FALSE]
    ELSE IF mode = "similar"
    THEN [DefaultConfig EXCEPT !.perceptual_threshold = Rat(80, 1),
                               !.min_confidence_threshold = Rat(70, 1),
                               !.use_color_histogram = TRUE,
                               !.use_edge_detection = TRUE]
    ELSE IF mode = "metadata"
    THEN [DefaultConfig EXCEPT !.min_confidence_threshold = Rat(60, 1),
                               !.metadata_fields =
                                   <<"file_size", "modified_at", "width", "height">>,
                               !.size_tolerance = 1024,
                               !.time_tolerance = 300]
    ELSE IF mode = "comprehensive"
    THEN [DefaultConfig EXCEPT !.perceptual_threshold = Rat(80, 1),
                               !.min_confidence_threshold = Rat(50, 1),
                               !.enable_cross_algorithm_validation = TRUE,
                               !.use_color_histogram = TRUE,
                               !.use_edge_detection = TRUE]
    ELSE DefaultConfig

(***************************************************************************)
(* algorithms.py: DetectionAlgorithm and the registry.                     *)
(***************************************************************************)
\* the id of the group of MockDetectionAlgorithm ("mock_group")
MockGroupId == 99

\* the classes the algorithms package registers on import, in import order
RegisteredAlgorithms == <<"SHA256Detector", "PerceptualHashDetector", "MetadataDetector">>

AlgorithmKinds == Range(RegisteredAlgorithms)

\* DetectionAlgorithm.__init__: an instance bound to a config
NewAlgorithm(kind, config) ==
    [kind |-> kind, config |-> config,
     performance |-> [files_processed |-> 0, groups_found |-> 0,
                      errors_encountered |-> 0]]

get_algorithm_name(alg) == alg.kind

\* AlgorithmRegistry.get_all_algorithms
get_all_algorithms(config) ==
    [k \in 1..Len(RegisteredAlgorithms) |-> NewAlgorithm(RegisteredAlgorithms[k], config)]

\* DetectionAlgorithm.can_process_file, which MockDetectionAlgorithm inherits
Base_can_process_file(f, supported_types) ==
    /\ f.file_type \notin {NoneStr, ""}
    /\ supported_types = {} \/ Lower(f.file_type) \in supported_types

\* MockDetectionAlgorithm.detect of the engine test: one group of the first
\* two files, no File Record written
Mock_detect(files, fs) ==
    [groups |-> IF Len(files) >= 2
                THEN <<DuplicateGroup(MockGroupId, "sha256", Hundred, Hundred,
                                      SubSeq(files, 1, 2))>>
                ELSE <<>>,
     fstate |-> fs]

can_process_file(alg, f, hash_available) ==
    IF alg.kind = "MockAlgorithm" THEN Base_can_process_file(f, {".jpg", ".png"})
    ELSE IF alg.kind = "SHA256Detector" THEN SHA256_can_process_file(f)
    ELSE IF alg.kind = "PerceptualHashDetector"
         THEN Perceptual_can_process_file(f, hash_available)
    ELSE Metadata_can_process_file(f, alg.config)

detect(alg, files, fs, c, hash_available) ==
    IF alg.kind = "MockAlgorithm" THEN Mock_detect(files, fs)
    ELSE IF alg.kind = "SHA256Detector" THEN SHA256_detect(files, fs, c)
    ELSE IF alg.kind = "PerceptualHashDetector"
         THEN Perceptual_detect(files, fs, c, alg.config, hash_available)
    ELSE Metadata_detect(files, fs, c, alg.config)

\* a fault of one call: the stage ("filter", "detect") at which the algorithms
\* of one kind raise an exception, or NoFault
NoFault == [kind |-> "none", stage |-> "none"]
Faults == {NoFault} \cup [kind : AlgorithmKinds, stage : {"filter", "detect"}]

\* the except branch of run_detection with the error left uncounted
Caught_uncounted(alg, perf0, fs) ==
    [raised |-> FALSE, failed |-> TRUE, groups |-> <<>>, fstate |-> fs,
     alg |-> [alg EXCEPT !.performance = perf0]]

\* the except branch of run_detection: the error is counted, [] is returned
Caught(alg, perf0, fs) ==
    [raised |-> FALSE, failed |-> TRUE, groups |-> <<>>, fstate |-> fs,
     alg |-> [alg EXCEPT !.performance = [perf0 EXCEPT !.errors_encountered = @ + 1]]]

\* the normal return of run_detection, d being what detect returned
Detected(alg, perf0, d) ==
    [raised |-> FALSE, failed |-> FALSE, groups |-> d.groups, fstate |-> d.fstate,
     alg |-> [alg EXCEPT !.performance = [perf0 EXCEPT !.groups_found = Len(d.groups)]]]

filter_files(alg, files, c, hash_available) ==
    SelectSeq(files, LAMBDA i : can_process_file(alg, c[i], hash_available))

\* the try block of run_detection, processable_files being what filter_files
\* returns unless it fails
TryDetection(alg, perf0, processable_files, fs, c, hash_available, fault) ==
    IF fault.kind = alg.kind /\ fault.stage = "filter" THEN Caught(alg, perf0, fs)
    ELSE IF processable_files = <<>>
    THEN [raised |-> FALSE, failed |-> FALSE, groups |-> <<>>, fstate |-> fs,
          alg |-> [alg EXCEPT !.performance = perf0]]
    ELSE IF fault.kind = alg.kind /\ fault.stage = "detect" THEN Caught(alg, perf0, fs)
    ELSE Detected(alg, perf0, detect(alg, processable_files, fs, c, hash_available))

\* run_detection: the returned groups, the instance and the File Records
\* afterwards; failed tells whether an exception was caught
run_detection(alg, files, fs, c, hash_available, fault) ==
    TryDetection(alg, [alg.performance EXCEPT !.files_processed = Len(files)],
                 filter_files(alg, files, c, hash_available),
                 fs, c, hash_available, fault)

(***************************************************************************)
(* engine.py: DuplicateDetectionEngine.                                    *)
(***************************************************************************)
\* the tokens of _select_algorithms_for_mode that occur in an algorithm name
NameTokens(name) ==
    IF name = "SHA256Detector" THEN {"SHA256"}
    ELSE IF name = "PerceptualHashDetector" THEN {"Perceptual"}
    ELSE IF name = "MetadataDetector" THEN {"Metadata"}
    ELSE {}

\* _select_algorithms_for_mode with the exact branch falling through to the
\* comprehensive one
_select_algorithms_for_mode_fallthrough(algs, mode) ==
    LET positions == [k \in 1..Len(algs) |-> k]
        named(token) == SelectSeq(positions,
                            LAMBDA k : token \in NameTokens(get_algorithm_name(algs[k])))
    IN IF mode = "similar" THEN named("Perceptual")
       ELSE IF mode = "metadata" THEN named("Metadata")
       ELSE positions

\* _select_algorithms_for_mode: the positions, in self.algorithms, of the
\* algorithms selected
_select_algorithms_for_mode(algs, mode) ==
    LET positions == [k \in 1..Len(algs) |-> k]
        named(token) == SelectSeq(positions,
                            LAMBDA k : token \in NameTokens(get_algorithm_name(algs[k])))
    IN IF mode = "exact" THEN named("SHA256")
       ELSE IF mode = "similar" THEN named("Perceptual")
       ELSE IF mode = "metadata" THEN named("Metadata")
       ELSE positions

NoResults ==
    [returned |-> FALSE, detection_mode |-> "none", groups |-> <<>>,
     total_files_scanned |-> 0, total_groups_found |-> 0, total_duplicates_found |-> 0,
     config |-> DefaultConfig, algorithm_performance |-> <<>>, errors |-> <<>>]

\* _create_empty_results without the error string
_create_empty_results_silent(mode, files, config) ==
    [returned |-> TRUE, detection_mode |-> mode, groups |-> <<>>,
     total_files_scanned |-> Len(files), total_groups_found |-> 0,
     total_duplicates_found |-> 0, config |-> config,
     algorithm_performance |-> <<>>, errors |-> <<>>]

\* _create_empty_results
_create_empty_results(mode, files, config) ==
    [returned |-> TRUE, detection_mode |-> mode, groups |-> <<>>,
     total_files_scanned |-> Len(files), total_groups_found |-> 0,
     total_duplicates_found |-> 0, config |-> config,
     algorithm_performance |-> <<>>,
     errors |-> <<"No algorithms available for detection mode">>]

\* one pass of the loop of detect_duplicates: r is what run_detection returned
\* for the algorithm at position pos
AfterCall(acc, pos, r) ==
    LET algorithm == acc.algorithms[pos]
        name == get_algorithm_name(algorithm)
        entry == [name |-> name, raised |-> r.raised, failed |-> r.failed,
                  groups |-> r.groups,
                  errors_before |-> algorithm.performance.errors_encountered,
                  errors_after |-> r.alg.performance.errors_encountered]
    IN IF r.raised
       THEN [acc EXCEPT !.errors = Append(@, "Algorithm failed"),
                        !.algorithms[pos] = r.alg,
                        !.fstate = r.fstate,
                        !.log = Append(@, entry)]
       ELSE [acc EXCEPT !.all_groups = @ \o r.groups,
                        !.algorithms[pos] = r.alg,
                        !.fstate = r.fstate,
                        !.algorithm_performance =
                            [n \in DOMAIN @ \cup {name} |->
                                IF n = name THEN r.alg.performance ELSE @[n]],
                        !.log = Append(@, entry)]

\* the loop of detect_duplicates over the selected algorithms
RECURSIVE RunSelected(_, _, _, _, _, _, _)
RunSelected(selected, k, acc, files, c, hash_available, fault) ==
    IF k > Len(selected) THEN acc
    ELSE RunSelected(selected, k + 1,
             AfterCall(acc, selected[k],
                 run_detection(acc.algorithms[selected[k]], files, acc.fstate, c,
                               hash_available, fault)),
             files, c, hash_available, fault)

\* the end of detect_duplicates with the aggregate counts taken from the raw
\* groups the algorithms handed over
BuildResults_raw_counts(acc, cons, mode, files, mode_config) ==
    [results |->
        IF cons.raised THEN [NoResults EXCEPT !.detection_mode = mode]
        ELSE [returned |-> TRUE, detection_mode |-> mode,
              groups |-> cons.groups,
              total_files_scanned |-> Len(files),
              total_groups_found |-> Len(acc.all_groups),
              total_duplicates_found |->
                  SeqSum([i \in 1..Len(acc.all_groups) |-> Len(acc.all_groups[i].files)]),
              config |-> mode_config,
              algorithm_performance |-> acc.algorithm_performance,
              errors |-> acc.errors],
     algorithms |-> acc.algorithms, fstate |-> cons.fstate, log |-> acc.log]

\* the end of detect_duplicates: the results built from what the loop gathered
\* (acc) and what consolidate_results returned (cons)
BuildResults(acc, cons, mode, files, mode_config) ==
    [results |->
        IF cons.raised THEN [NoResults EXCEPT !.detection_mode = mode]
        ELSE [returned |-> TRUE, detection_mode |-> mode,
              groups |-> cons.groups,
              total_files_scanned |-> Len(files),
              total_groups_found |-> Len(cons.groups),
              total_duplicates_found |->
                  SeqSum([i \in 1..Len(cons.groups) |-> Len(cons.groups[i].files)]),
              config |-> mode_config,
              algorithm_performance |-> acc.algorithm_performance,
              errors |-> acc.errors],
     algorithms |-> acc.algorithms, fstate |-> cons.fstate, log |-> acc.log]

\* detect_duplicates after the loop
ConsolidateRun(acc, mode, files, mode_config, c, lazy) ==
    BuildResults(acc,
                 consolidate_results(acc.all_groups, mode_config, acc.fstate, c, lazy),
                 mode, files, mode_config)

\* detect_duplicates: the results, the engine's algorithms, the File Records
\* and the log of run_detection calls afterwards
detect_duplicates(algs, config, files, mode, fs, c, hash_available, lazy, fault) ==
    LET mode_config == get_config_for_mode(mode)
        loaded == IF algs = <<>> THEN get_all_algorithms(config) ELSE algs
        selected_algorithms == _select_algorithms_for_mode(loaded, mode)
    IN IF selected_algorithms = <<>>
       THEN [results |-> _create_empty_results(mode, files, config),
             algorithms |-> loaded, fstate |-> fs, log |-> <<>>]
       ELSE ConsolidateRun(
                RunSelected(selected_algorithms, 1,
                    [all_groups |-> <<>>, algorithms |-> loaded, fstate |-> fs,
                     algorithm_performance |-> <<>>, errors |-> <<>>, log |-> <<>>],
                    files, c, hash_available, fault),
                mode, files, mode_config, c, lazy)

(***************************************************************************)
(* A detection run: an engine is constructed over a scanned file list,     *)
(* algorithms are wired into it or left to the registry, and               *)
(* detect_duplicates is called.                                            *)
(***************************************************************************)
RunFiles == 1..NumRunFiles

\* the File Records the scanner may hand over
Profiles ==
    {DuplicateFile(1000, "abc123", <<15, 0, 15, 0>>, ".jpg", 1920, 1080,
                   NoneInt, 100, Path(FALSE, 2, 9)),
     DuplicateFile(1000, "abc123", <<15, 0, 15, 1>>, ".JPG", 1920, 1080,
                   NoneInt, 130, Path(TRUE, 3, 9)),
     DuplicateFile(2024, "xyz789", <<15, 0, 12, 3>>, ".png", 800, 600,
                   50, 100, Path(FALSE, 2, 25)),
     DuplicateFile(1000, NoneStr, NoHash, NoneStr, NoneInt, NoneInt,
                   NoneInt, NoneInt, Path(FALSE, 5, 60))}

\* DuplicateDetectionEngine(): config or DetectionConfig()
EngineConfigs == {DefaultConfig}

Init ==
    /\ corpus \in [RunFiles -> Profiles]
    /\ fstate = [i \in RunFiles |-> FreshFile]
    /\ lazyAnnotations \in BOOLEAN
    /\ hashAvailable \in BOOLEAN
    /\ engineConfig \in EngineConfigs
    /\ algorithms = <<>>
    /\ callLog = <<>>
    /\ results = NoResults
    /\ call = NoCall
    /\ ret = NoCall
    /\ phase = "engine"
    /\ rawGroups = <<>>
    /\ consConfig = DefaultConfig
    /\ consResult = [returned |-> FALSE, groups |-> <<>>, ranked |-> <<>>]

\* the faults that can occur in a run in this mode of an engine with these
\* algorithms wired: only an algorithm the run calls can raise
FaultsOf(algs, mode) ==
    LET loaded == IF algs = <<>> THEN get_all_algorithms(DefaultConfig) ELSE algs
        selected == _select_algorithms_for_mode(loaded, mode)
    IN {f \in Faults : \/ f = NoFault
                       \/ \E k \in 1..Len(selected) : loaded[selected[k]].kind = f.kind}

\* engine.add_algorithm(Kind(engine.config))
AddAlgorithm ==
    /\ phase = "engine"
    /\ Len(algorithms) < MaxAlgorithms
    /\ \E kind \in AlgorithmKinds :
          algorithms' = Append(algorithms, NewAlgorithm(kind, engineConfig))
    /\ UNCHANGED <<call, ret, corpus, fstate, lazyAnnotations, hashAvailable, rawGroups, consConfig,
                   consResult, phase, engineConfig, callLog, results>>

\* the caller receives what detect_duplicates returned and left behind
Return(r) ==
    /\ results' = r.results
    /\ algorithms' = r.algorithms
    /\ fstate' = r.fstate
    /\ callLog' = r.log

\* engine.detect_duplicates(files, mode)
DetectDuplicates ==
    /\ phase = "engine"
    /\ \E mode \in Modes : \E fault \in FaultsOf(algorithms, mode) :
          Return(detect_duplicates(algorithms, engineConfig, [i \in RunFiles |-> i],
                                   mode, fstate, corpus, hashAvailable,
                                   lazyAnnotations, fault))
    /\ phase' = "detected"
    /\ UNCHANGED <<call, ret, corpus, lazyAnnotations, hashAvailable, rawGroups, consConfig,
                   consResult, engineConfig>>

Next == AddAlgorithm \/ DetectDuplicates

Spec == Init /\ [][Next]_vars

(***************************************************************************)
(* Consolidation of arbitrary raw groups: a caller builds a list of        *)
(* validly constructed groups over shared File Records and passes it,      *)
(* with a config that passes validate(), to consolidate_results.           *)
(***************************************************************************)
Methods == <<"sha256", "perceptual_hash", "metadata">>

\* the File Records the raw groups are built over
ConsFile(i) ==
    DuplicateFile(1000 * (4 - (i % 4)), NoneStr, NoneStr, ".jpg",
                  IF i % 3 = 0 THEN 1920 ELSE NoneInt,
                  IF i % 3 = 0 THEN 1080 ELSE NoneInt,
                  IF i % 2 = 0 THEN 100 * i ELSE NoneInt,
                  NoneInt,
                  Path(i = 4, i, 10 * i))

RECURSIVE SetToSeq(_)
SetToSeq(S) == IF S = {} THEN <<>>
               ELSE LET m == SetMin(S) IN <<m>> \o SetToSeq(S \ {m})

\* file lists of raw groups: distinct ids, at least two
GroupFileLists ==
    {SetToSeq(S) : S \in {T \in SUBSET FileIds :
                            Cardinality(T) >= 2 /\ Cardinality(T) <= MaxGroupSize}}

RawConfidences == {Rat(5004, 100), Rat(90, 1)}

ConfigCandidates ==
    {[DefaultConfig EXCEPT !.min_confidence_threshold = t,
                           !.max_results_per_group = m,
                           !.enable_cross_algorithm_validation = x] :
        t \in {Rat(5004, 100), Rat(60, 1)}, m \in {0, 1, 3}, x \in BOOLEAN}

NoResult == [returned |-> FALSE, groups |-> <<>>, ranked |-> <<>>]

SlotsUsed(groups) == SeqSum([i \in 1..Len(groups) |-> Len(groups[i].files)])

InitCons ==
    /\ corpus = [i \in FileIds |-> ConsFile(i)]
    /\ fstate = [i \in FileIds |-> FreshFile]
    /\ lazyAnnotations \in BOOLEAN
    /\ rawGroups = <<>>
    /\ consConfig \in {c \in ConfigCandidates : validate(c) = {}}
    /\ consResult = NoResult
    /\ phase = "collect"
    /\ hashAvailable = TRUE
    /\ engineConfig = DefaultConfig
    /\ algorithms = <<>>
    /\ callLog = <<>>
    /\ results = NoResults
    /\ call = NoCall
    /\ ret = NoCall

\* the caller constructs one more raw group
AddRawGroup ==
    /\ phase = "collect"
    /\ \E files \in GroupFileLists, conf \in RawConfidences :
          /\ ValidGroupFiles(files)
          /\ SlotsUsed(rawGroups) + Len(files) <= MaxSlots
          /\ rawGroups' = Append(rawGroups,
                 DuplicateGroup(Len(rawGroups) + 1, Methods[(Len(rawGroups) % 3) + 1],
                                conf, conf, files))
    /\ UNCHANGED <<call, ret, corpus, fstate, lazyAnnotations, hashAvailable, consConfig, consResult,
                   phase, engineConfig, algorithms, callLog, results>>

\* the caller calls consolidate_results(rawGroups, consConfig)
Consolidate ==
    /\ phase = "collect"
    /\ LET r == consolidate_results(rawGroups, consConfig, fstate, corpus,
                                    lazyAnnotations)
       IN /\ consResult' = [returned |-> ~r.raised, groups |-> r.groups,
                          ranked |-> r.ranked]
          /\ fstate' = r.fstate
    /\ phase' = "consolidated"
    /\ UNCHANGED <<call, ret, corpus, lazyAnnotations, hashAvailable, rawGroups, consConfig,
                   engineConfig, algorithms, callLog, results>>

NextCons == AddRawGroup \/ Consolidate

SpecCons == InitCons /\ [][NextCons]_vars

(***************************************************************************)
(* Claims about consolidate_results (checked under SpecCons).              *)
(***************************************************************************)
Originals(g) == {i \in FileIdSet(g) : fstate[i].is_original}

\* C1: with cross-algorithm merging enabled, no file id occurs in two of the
\* groups consolidate_results returns.
C1_NoFileInTwoGroups ==
    (consResult.returned /\ consConfig.enable_cross_algorithm_validation) =>
        \A i, j \in 1..Len(consResult.groups) :
            i # j => FileIdSet(consResult.groups[i]) \cap FileIdSet(consResult.groups[j]) = {}

\* C2: every group consolidate_results returns contains at least two files.
C2_ReturnedGroupsHaveTwoFiles ==
    consResult.returned =>
        \A i \in 1..Len(consResult.groups) : Len(consResult.groups[i].files) >= 2

\* C3: after consolidate_results returns, every returned group has at most one
\* file whose is_original flag is set.
C3_AtMostOneOriginal ==
    consResult.returned =>
        \A i \in 1..Len(consResult.groups) :
            Cardinality(Originals(consResult.groups[i])) <= 1

\* C4: no group consolidate_results returns has a confidence score below
\* config.min_confidence_threshold, merged groups included.
C4_ConfidenceAtLeastThreshold ==
    consResult.returned =>
        \A i \in 1..Len(consResult.groups) :
            RLeq(consConfig.min_confidence_threshold,
                 consResult.groups[i].confidence_score)

(***************************************************************************)
(* Claims about a detection run (checked under Spec).                      *)
(***************************************************************************)
InRange(x) == RLeq(Zero, x) /\ RLeq(x, Hundred)

\* the groups the run_detection calls of the run returned, in call order
RunGroups(k) == callLog[k].groups

\* the run went through the algorithm loop and returned its results
NormalReturn ==
    /\ phase = "detected"
    /\ results.returned
    /\ _select_algorithms_for_mode(algorithms, results.detection_mode) # <<>>

\* C5: every group in the results of a detection run has a confidence score
\* within [0,100]: the groups each detector hands over are in that range and
\* so are the groups after the merge step has recomputed the weighted average.
C5_ConfidenceInRange ==
    /\ \A k \in 1..Len(callLog) : \A j \in 1..Len(RunGroups(k)) :
          InRange(RunGroups(k)[j].confidence_score)
    /\ results.returned =>
          \A i \in 1..Len(results.groups) : InRange(results.groups[i].confidence_score)

\* all three detectors handed over groups and a returned group carries a
\* confidence that the merge step recomputed
C5_Witness ==
    /\ NormalReturn
    /\ {callLog[k].name : k \in {k \in 1..Len(callLog) : RunGroups(k) # <<>>}}
          = AlgorithmKinds
    /\ \E i \in 1..Len(results.groups) :
          /\ InRange(results.groups[i].confidence_score)
          /\ \A k \in 1..Len(callLog) : \A j \in 1..Len(RunGroups(k)) :
                RunGroups(k)[j].confidence_score # results.groups[i].confidence_score

\* C6: run_detection never propagates an exception; whenever filtering or
\* detect fails, the call returns an empty group list and errors_encountered
\* is one more than before the call.
C6_RunDetectionNeverRaises ==
    \A k \in 1..Len(callLog) :
        /\ ~callLog[k].raised
        /\ callLog[k].failed =>
              /\ callLog[k].groups = <<>>
              /\ callLog[k].errors_after = callLog[k].errors_before + 1
        /\ ~callLog[k].failed => callLog[k].errors_after = callLog[k].errors_before

\* a call of the run failed and was answered with [] and one counted error
C6_Witness ==
    \E k \in 1..Len(callLog) :
        /\ callLog[k].failed
        /\ ~callLog[k].raised
        /\ callLog[k].groups = <<>>
        /\ callLog[k].errors_after = callLog[k].errors_before + 1

\* C7: when one of several selected algorithms fails during a detection run,
\* detect_duplicates still returns results that contain the groups of the other
\* algorithms (those that reach the confidence threshold of the mode) and whose
\* errors list is non-empty.
C7_PartialFailureReported ==
    (/\ phase = "detected"
     /\ Len(callLog) >= 2
     /\ \E k \in 1..Len(callLog) : callLog[k].failed
     /\ \E k \in 1..Len(callLog) : ~callLog[k].failed)
    => /\ results.returned
       /\ results.errors # <<>>
       /\ \A k \in 1..Len(callLog) : \A j \in 1..Len(RunGroups(k)) :
             RLeq(results.config.min_confidence_threshold,
                  RunGroups(k)[j].confidence_score)
             => \E i \in 1..Len(results.groups) :
                    FileIdSet(RunGroups(k)[j]) \subseteq FileIdSet(results.groups[i])

\* C8: if no algorithm can be selected for the requested mode, detect_duplicates
\* returns a result with no groups, total_groups_found = 0,
\* total_duplicates_found = 0, total_files_scanned = the number of input files
\* and a non-empty errors list.
C8_NoAlgorithmGivesEmptyResults ==
    (/\ phase = "detected"
     /\ _select_algorithms_for_mode(algorithms, results.detection_mode) = <<>>)
    => /\ results.returned
       /\ results.groups = <<>>
       /\ results.total_groups_found = 0
       /\ results.total_duplicates_found = 0
       /\ results.total_files_scanned = NumRunFiles
       /\ results.errors # <<>>
       /\ callLog = <<>>

\* a run in a mode none of the wired algorithms serves
C8_Witness ==
    /\ phase = "detected"
    /\ algorithms # <<>>
    /\ _select_algorithms_for_mode(algorithms, results.detection_mode) = <<>>
    /\ results.returned
    /\ results.total_files_scanned = NumRunFiles
    /\ results.errors # <<>>

\* the algorithm-per-mode table
ModeTable(mode) ==
    IF mode = "exact" THEN {"SHA256Detector"}
    ELSE IF mode = "similar" THEN {"PerceptualHashDetector"}
    ELSE IF mode = "metadata" THEN {"MetadataDetector"}
    ELSE {"SHA256Detector", "PerceptualHashDetector", "MetadataDetector"}

PresetOfTable(config, mode, similar_min_confidence) ==
    /\ mode = "exact" => config.min_confidence_threshold = Rat(100, 1)
    /\ mode = "similar" =>
          /\ config.perceptual_threshold = Rat(80, 1)
          /\ config.min_confidence_threshold = similar_min_confidence
    /\ mode = "metadata" =>
          /\ config.min_confidence_threshold = Rat(60, 1)
          /\ Range(config.metadata_fields)
                = {"file_size", "modified_at", "width", "height"}
          /\ config.size_tolerance = 1024
          /\ config.time_tolerance = 300
    /\ mode = "comprehensive" =>
          /\ config.perceptual_threshold = Rat(80, 1)
          /\ config.min_confidence_threshold = Rat(50, 1)
          /\ config.enable_cross_algorithm_validation

\* C10 as stated: the config get_config_for_mode hands to a run is the preset
\* of the mode table, where similar has threshold 80 and minConfidence 80.
C10_PresetAsStated ==
    NormalReturn => PresetOfTable(results.config, results.detection_mode, Rat(80, 1))

\* C10: get_config_for_mode returns the preset of the mode table: exact has
\* minConfidence 100; similar has threshold 80 and minConfidence 70; metadata
\* has minConfidence 60, fields {file_size, modified_at, width, height}, size
\* tolerance 1024 and time tolerance 300; comprehensive has threshold 80,
\* minConfidence 50 and cross-algorithm validation on.
C10_PresetOfMode ==
    NormalReturn => PresetOfTable(results.config, results.detection_mode, Rat(70, 1))

\* a run in similar mode returned results carrying the similar preset
C10_Witness ==
    /\ NormalReturn
    /\ results.detection_mode = "similar"
    /\ results.config.perceptual_threshold = Rat(80, 1)
    /\ results.config.min_confidence_threshold = Rat(70, 1)

(***************************************************************************)
(* Direct calls: a caller builds File Records, groups and a config and     *)
(* calls one function of the detectors, the results processor or the       *)
(* config on them.                                                         *)
(***************************************************************************)
NumUnitFiles == 3

UnitFiles == 1..NumUnitFiles

\* the longest file list a detector is called on directly
MaxDetectFiles == 4

\* a File Record that carries nothing but its size
PlainFile == DuplicateFile(1000, NoneStr, NoHash, NoneStr, NoneInt, NoneInt,
                           NoneInt, NoneInt, EmptyPath)

\* the list of the first n File Records
FirstFiles(n) == [i \in 1..n |-> i]

InitUnit ==
    /\ phase = "unit"
    /\ call = NoCall
    /\ ret = NoCall
    /\ corpus = <<>>
    /\ fstate = <<>>
    /\ lazyAnnotations = TRUE
    /\ hashAvailable = TRUE
    /\ rawGroups = <<>>
    /\ consConfig = DefaultConfig
    /\ consResult = NoResult
    /\ engineConfig = DefaultConfig
    /\ algorithms = <<>>
    /\ callLog = <<>>
    /\ results = NoResults

\* what a direct call leaves alone
UnitFrame ==
    /\ phase' = "called"
    /\ UNCHANGED <<lazyAnnotations, hashAvailable, rawGroups, consConfig, consResult,
                   engineConfig, algorithms, callLog, results>>

\* the mutable fields of a File Record before a detector is called: as
\* constructed, or as an earlier detection and nomination left them
PriorStates == {FreshFile, [is_original |-> TRUE, confidence_score |-> Rat(425, 10)]}

\* the content hashes a File Record may carry: none, empty, blank, or a digest
Sha256Values == {NoneStr, "", " ", "abc123", "ABC123", "xyz789"}

\* SHA256Detector(config).detect(files)
CallSHA256Detect ==
    /\ phase = "unit"
    /\ \E n \in 0..MaxDetectFiles :
       \E hashes \in [1..n -> Sha256Values], prior \in PriorStates :
          LET c == [i \in 1..n |-> [PlainFile EXCEPT !.sha256 = hashes[i]]]
              fs == [i \in 1..n |-> prior]
              r == SHA256_detect(FirstFiles(n), fs, c)
          IN /\ corpus' = c
             /\ call' = [op |-> "SHA256Detector.detect", files |-> FirstFiles(n),
                         before |-> fs]
             /\ ret' = [groups |-> r.groups]
             /\ fstate' = r.fstate
    /\ UnitFrame

\* the perceptual hashes a File Record may carry: none, an anchor hash, two
\* hashes three bits from it and six bits from each other, and a distant one
PerceptualHashValues ==
    {NoHash, <<15, 0, 15, 0>>, <<8, 0, 15, 0>>, <<15, 7, 15, 0>>, <<0, 15, 0, 15>>}

PerceptualThresholds == {Rat(80, 1), Rat(100, 1)}

\* PerceptualHashDetector(config).detect(files) on image files
CallPerceptualDetect ==
    /\ phase = "unit"
    /\ \E n \in 0..MaxDetectFiles :
       \E hashes \in [1..n -> PerceptualHashValues], threshold \in PerceptualThresholds,
          prior \in PriorStates :
          LET c == [i \in 1..n |-> [PlainFile EXCEPT !.perceptual_hash = hashes[i],
                                                     !.file_type = ".jpg"]]
              fs == [i \in 1..n |-> prior]
              config == [DefaultConfig EXCEPT !.perceptual_threshold = threshold]
              r == Perceptual_detect(FirstFiles(n), fs, c, config, TRUE)
          IN /\ corpus' = c
             /\ call' = [op |-> "PerceptualHashDetector.detect",
                         files |-> FirstFiles(n), config |-> config, before |-> fs]
             /\ ret' = [groups |-> r.groups]
             /\ fstate' = r.fstate
    /\ UnitFrame

\* the sizes of the files the metadata detector is called on: 990 and 1010 are
\* within the tolerance of 1000 and not of each other
MetadataSizes == {990, 1000, 1010, 5000}

ClusterTolerance == 10

\* MetadataDetector(config).detect(files), files compared by size
CallMetadataDetect ==
    /\ phase = "unit"
    /\ \E n \in 0..MaxDetectFiles :
       \E sizes \in [1..n -> MetadataSizes], prior \in PriorStates :
          LET c == [i \in 1..n |-> [PlainFile EXCEPT !.file_size = sizes[i]]]
              fs == [i \in 1..n |-> prior]
              config == [DefaultConfig EXCEPT !.metadata_fields = <<"file_size">>,
                                              !.size_tolerance = ClusterTolerance]
              r == Metadata_detect(FirstFiles(n), fs, c, config)
          IN /\ corpus' = c
             /\ call' = [op |-> "MetadataDetector.detect",
                         files |-> FirstFiles(n), config |-> config, before |-> fs]
             /\ ret' = [groups |-> r.groups]
             /\ fstate' = r.fstate
    /\ UnitFrame

\* the hashes _calculate_similarity is called on: none, every hash of one hex
\* digit (a 2x2 hash) and some hashes of four hex digits (4x4)
SimilarityHashes ==
    {NoHash} \cup {<<d>> : d \in 0..15}
    \cup {<<15, 0, 15, 0>>, <<15, 0, 15, 1>>, <<8, 0, 15, 0>>, <<15, 0, 12, 3>>,
          <<0, 15, 0, 15>>, <<0, 0, 0, 0>>, <<15, 15, 15, 15>>}

\* PerceptualHashDetector(config)._calculate_similarity(hash1, hash2)
CallCalculateSimilarity ==
    /\ phase = "unit"
    /\ \E hash1 \in SimilarityHashes, hash2 \in SimilarityHashes :
          /\ call' = [op |-> "_calculate_similarity", hash1 |-> hash1, hash2 |-> hash2]
          /\ ret' = [value |-> _calculate_similarity(hash1, hash2)]
    /\ UNCHANGED <<corpus, fstate>>
    /\ UnitFrame

\* the field lists and tolerances of the configs the metadata comparison is
\* called with: the default and the metadata preset among them
MetadataFieldLists ==
    {<<"file_size">>, <<"modified_at">>, <<"file_size", "modified_at">>,
     <<"width", "height">>, <<"file_size", "modified_at", "width", "height">>}

MetadataConfigs ==
    {[DefaultConfig EXCEPT !.metadata_fields = fields,
                           !.size_tolerance = t[1],
                           !.time_tolerance = t[2]] :
        fields \in MetadataFieldLists, t \in {<<0, 60>>, <<1024, 300>>}}

\* the second file of a compared pair; the first has size 1000
SecondSizes == {1000, 2024, 2025}

\* MetadataDetector(config)._are_metadata_similar(file1, file2)
CallAreMetadataSimilar ==
    /\ phase = "unit"
    /\ \E config \in MetadataConfigs, size2 \in SecondSizes,
          modified1 \in {NoneInt, 100}, modified2 \in {NoneInt, 100, 160, 400, 401},
          width1 \in {NoneInt, 800}, width2 \in {NoneInt, 800, 1920},
          height \in {NoneInt, 600} :
          LET file1 == [PlainFile EXCEPT !.modified_at = modified1, !.width = width1,
                                         !.height = height]
              file2 == [PlainFile EXCEPT !.file_size = size2, !.modified_at = modified2,
                                         !.width = width2, !.height = height]
          IN /\ corpus' = <<file1, file2>>
             /\ call' = [op |-> "_are_metadata_similar", config |-> config]
             /\ ret' = [value |-> _are_metadata_similar(file1, file2, config)]
    /\ UNCHANGED fstate
    /\ UnitFrame

\* the file list of a group, in any of the two orders the model distinguishes
Reverse(s) == [i \in 1..Len(s) |-> s[Len(s) + 1 - i]]

\* the confidences and similarities of the groups handed to _merge_groups
MergeConfidences == {Rat(90, 1), Rat(70, 1), Rat(853, 10), Rat(955, 10)}

MergeSimilarities == {Rat(80, 1), Hundred}

\* ResultsProcessor(config)._merge_groups(target_group, source_group)
CallMergeGroups ==
    /\ phase = "unit"
    /\ \E tfiles \in GroupFileLists \cup {Reverse(l) : l \in GroupFileLists},
          sfiles \in GroupFileLists,
          tconf \in MergeConfidences, sconf \in MergeConfidences,
          tsim \in MergeSimilarities, ssim \in MergeSimilarities :
          LET target == DuplicateGroup(1, "sha256", tconf, tsim, tfiles)
              source == DuplicateGroup(2, "metadata", sconf, ssim, sfiles)
          IN /\ call' = [op |-> "_merge_groups", target |-> target, source |-> source]
             /\ ret' = [value |-> _merge_groups(target, source)]
    /\ UNCHANGED <<corpus, fstate>>
    /\ UnitFrame

\* the File Records of the groups handed to _suggest_original: sizes with an
\* empty file among them, creation times with the epoch among them
NominationFiles ==
    {[PlainFile EXCEPT !.file_size = size, !.created_at = created,
                       !.width = d[1], !.height = d[2], !.file_path = path] :
        size \in {0, 1000, 2000}, created \in {NoneInt, 0, 100},
        d \in {<<NoneInt, NoneInt>>, <<800, 600>>},
        path \in {Path(FALSE, 1, 10), Path(TRUE, 3, 10)}}

\* the third file of a group of three
ThirdFiles == {[PlainFile EXCEPT !.file_size = size, !.file_path = Path(FALSE, 1, 10)] :
                  size \in {0, 2000}}

\* ResultsProcessor()._suggest_original(group)
CallSuggestOriginal ==
    /\ phase = "unit"
    /\ \E file1 \in NominationFiles, file2 \in NominationFiles,
          rest \in {<<>>} \cup {<<f>> : f \in ThirdFiles}, flagged \in BOOLEAN :
          LET files == <<file1, file2>> \o rest
              group == DuplicateGroup(1, "metadata", Rat(90, 1), Rat(90, 1),
                                      FirstFiles(Len(files)))
              before == [i \in 1..Len(files) |-> [FreshFile EXCEPT !.is_original = flagged]]
          IN /\ corpus' = files
             /\ call' = [op |-> "_suggest_original", group |-> group]
             /\ fstate' = _suggest_original(group, before, files)
             /\ ret' = NoCall
    /\ UnitFrame

\* the file lists of the groups handed to validate_consolidation_results: a
\* group's list may have been cut below two files after its construction
ValidatedFileLists == {SetToSeq(S) : S \in SUBSET UnitFiles}

\* the confidences of those groups, in and out of [0, 100]
ValidatedConfidences == {Hundred, Rat(1001, 10), Rat(-1, 10)}

\* ResultsProcessor().validate_consolidation_results(groups)
CallValidateConsolidationResults ==
    /\ phase = "unit"
    /\ \E first \in {<<>>} \cup {<<l>> : l \in ValidatedFileLists \X ValidatedConfidences},
          second \in {<<>>} \cup {<<l>> : l \in ValidatedFileLists \X ValidatedConfidences},
          originals \in SUBSET UnitFiles :
          LET given == first \o second
              groups == [k \in 1..Len(given) |->
                            DuplicateGroup(k, "sha256", given[k][2], given[k][2],
                                           given[k][1])]
              fs == [i \in UnitFiles |-> [FreshFile EXCEPT !.is_original = i \in originals]]
          IN /\ corpus' = [i \in UnitFiles |-> PlainFile]
             /\ fstate' = fs
             /\ call' = [op |-> "validate_consolidation_results", groups |-> groups,
                         fstate |-> fs]
             /\ ret' = [value |-> validate_consolidation_results(groups, fs),
                        raised |-> FALSE, groups |-> groups]
    /\ UnitFrame

\* the configs validate() is called on: every constrained field takes values
\* inside, on the edge of and outside its range.  The weight sums stay off
\* the edges 0.99 and 1.01, where the float sum decides.
ValidatedConfigs ==
    {[DefaultConfig EXCEPT !.perceptual_threshold = pt,
                           !.perceptual_hash_size = hs,
                           !.size_tolerance = tol[1],
                           !.time_tolerance = tol[2],
                           !.min_confidence_threshold = mc,
                           !.max_results_per_group = mr,
                           !.feature_weight_edge = we] :
        pt \in {Rat(-1, 10), Zero, Hundred, Rat(150, 1)},
        hs \in {8, 12, 16, 32},
        tol \in {<<0, 0>>, <<-100, -60>>, <<-1, 60>>, <<1024, -1>>},
        mc \in {Rat(-1, 10), Zero, Hundred, Rat(1001, 10)},
        mr \in {-1, 0, 1},
        we \in {Rat(1, 10), Rat(105, 1000), Rat(3, 10), Rat(8, 100)}}

\* DetectionConfig(...).validate()
CallValidate ==
    /\ phase = "unit"
    /\ \E config \in ValidatedConfigs :
          /\ call' = [op |-> "validate", config |-> config]
          /\ ret' = [value |-> validate(config), config |-> config]
    /\ UNCHANGED <<corpus, fstate>>
    /\ UnitFrame

\* ResultsProcessor()._merge_overlapping_groups(groups) on two or three groups
CallMergeOverlappingGroups ==
    /\ phase = "unit"
    /\ \E first \in GroupFileLists, second \in GroupFileLists,
          rest \in {<<>>} \cup {<<l>> : l \in GroupFileLists} :
          LET lists == <<first, second>> \o rest
              groups == [k \in 1..Len(lists) |->
                            DuplicateGroup(k, Methods[k], Rat(90, 1), Rat(90, 1), lists[k])]
          IN /\ call' = [op |-> "_merge_overlapping_groups", groups |-> groups]
             /\ ret' = [value |-> _merge_overlapping_groups(groups)]
    /\ UNCHANGED <<corpus, fstate>>
    /\ UnitFrame

\* the File Records an algorithm wrote: those of the groups it returned
WrittenBy(r) == UNION {FileIdSet(r.groups[k]) : k \in 1..Len(r.groups)}

\* successive run_detection calls on the instances algs over shared File
\* Records: calls[k] names the instance (pos), the file list and the fault of
\* the k-th call; log collects what each call returned and the performance
\* record it left
RECURSIVE RunCalls(_, _, _, _, _, _)
AfterRun(calls, k, algs, c, log, r) ==
    RunCalls(calls, k + 1, [algs EXCEPT ![calls[k].pos] = r.alg], r.fstate, c,
             Append(log, [groups |-> r.groups, failed |-> r.failed,
                          performance |-> r.alg.performance]))

RunCalls(calls, k, algs, fs, c, log) ==
    IF k > Len(calls) THEN [log |-> log, fstate |-> fs]
    ELSE AfterRun(calls, k, algs, c, log,
                  run_detection(algs[calls[k].pos], calls[k].files, fs, c, TRUE,
                                calls[k].fault))

\* two passes of the algorithm loop of detect_duplicates over files, in the
\* order first, second (order 1) and in the other order (order 2)
RunPair(first, second, files, fs, c) ==
    [order \in {1, 2} |->
        RunCalls([k \in {1, 2} |->
                     [pos |-> IF order = 1 THEN k ELSE 3 - k, files |-> files,
                      fault |-> NoFault]],
                 1, <<first, second>>, fs, c, <<>>)]

\* what the two orders wrote and left behind
PairResult(runs) ==
    /\ fstate' = runs[1].fstate
    /\ ret' = [written_first |-> WrittenBy(runs[1].log[1]),
               written_second |-> WrittenBy(runs[1].log[2]),
               reversed |-> runs[2].fstate]

\* two algorithms of one run over the shared file list, run in one order and
\* in the other
CallAlgorithmsInEitherOrder ==
    /\ phase = "unit"
    /\ \E first \in AlgorithmKinds, second \in AlgorithmKinds,
          c \in [UnitFiles -> Profiles] :
          /\ first # second
          /\ corpus' = c
          /\ call' = [op |-> "run_in_either_order", first |-> first, second |-> second]
          /\ PairResult(RunPair(NewAlgorithm(first, DefaultConfig),
                                NewAlgorithm(second, DefaultConfig),
                                FirstFiles(NumUnitFiles),
                                [i \in UnitFiles |-> FreshFile], c))
    /\ UnitFrame

\* a direct caller receives what detect_duplicates returned and left in the
\* File Records
ReturnedResults(r) ==
    /\ fstate' = r.fstate
    /\ ret' = [results |-> r.results]

\* the File Records of the engine test, with the file type the test leaves
\* unset or set to the extension of the path
MockFileTypes == {NoneStr, ".jpg"}

\* what the patched registry of the engine test returns from
\* get_all_algorithms: one MockDetectionAlgorithm
MockRegistry == <<NewAlgorithm("MockAlgorithm", DefaultConfig)>>

\* detect_duplicates(files, mode) of an engine with no algorithm wired whose
\* registry is patched to supply MockRegistry (engine.py 182-184 assigns it to
\* self.algorithms)
CallDetectWithPatchedRegistry ==
    /\ phase = "unit"
    /\ \E n \in 1..NumUnitFiles, mode \in Modes, ftype \in MockFileTypes :
          LET c == [i \in 1..n |-> DuplicateFile(1024, NoneStr, NoHash, ftype, NoneInt,
                                                 NoneInt, NoneInt, NoneInt,
                                                 Path(FALSE, 2, 9))]
              r == detect_duplicates(MockRegistry, DefaultConfig, FirstFiles(n), mode,
                                     [i \in 1..n |-> FreshFile], c, TRUE,
                                     lazyAnnotations, NoFault)
          IN /\ corpus' = c
             /\ call' = [op |-> "detect_duplicates(patched registry)",
                         files |-> FirstFiles(n), mode |-> mode]
             /\ ReturnedResults(r)
    /\ UnitFrame

\* the content hashes of the files of two successive calls
RepeatedCallHashes == {NoneStr, "abc123", "xyz789"}

\* what the two calls returned and the performance record after each
TwoCallsResult(run) ==
    /\ fstate' = run.fstate
    /\ ret' = [first |-> run.log[1], second |-> run.log[2]]

\* detector.run_detection(files) followed by detector.run_detection(later) on
\* the same SHA256Detector; the second call may fail in filter_files or detect
CallRunDetectionTwice ==
    /\ phase = "unit"
    /\ \E hashes \in [UnitFiles -> RepeatedCallHashes], from \in 1..(NumUnitFiles + 1),
          stage \in {"none", "filter", "detect"} :
          LET c == [i \in UnitFiles |-> [PlainFile EXCEPT !.sha256 = hashes[i]]]
              files == FirstFiles(NumUnitFiles)
              later == SubSeq(files, from, NumUnitFiles)
              fault == IF stage = "none" THEN NoFault
                       ELSE [kind |-> "SHA256Detector", stage |-> stage]
          IN /\ corpus' = c
             /\ call' = [op |-> "run_detection twice", files |-> files, later |-> later,
                         fault |-> fault]
             /\ TwoCallsResult(
                    RunCalls(<<[pos |-> 1, files |-> files, fault |-> NoFault],
                               [pos |-> 1, files |-> later, fault |-> fault]>>,
                             1, <<NewAlgorithm("SHA256Detector", DefaultConfig)>>,
                             [i \in UnitFiles |-> FreshFile], c, <<>>))
    /\ UnitFrame

\* DuplicateDetectionEngine().detect_duplicates(files, mode) over a scanned
\* list of MaxDetectFiles files, the algorithms loaded from the registry
CallDetectDuplicates ==
    /\ phase = "unit"
    /\ \E c \in [1..MaxDetectFiles -> Profiles], mode \in Modes :
          /\ corpus' = c
          /\ call' = [op |-> "detect_duplicates", files |-> FirstFiles(MaxDetectFiles),
                      mode |-> mode]
          /\ ReturnedResults(detect_duplicates(<<>>, DefaultConfig,
                                 FirstFiles(MaxDetectFiles), mode,
                                 [i \in 1..MaxDetectFiles |-> FreshFile], c,
                                 hashAvailable, lazyAnnotations, NoFault))
    /\ UnitFrame

NextUnit ==
    \/ CallSHA256Detect
    \/ CallPerceptualDetect
    \/ CallMetadataDetect
    \/ CallCalculateSimilarity
    \/ CallAreMetadataSimilar
    \/ CallMergeGroups
    \/ CallSuggestOriginal
    \/ CallValidateConsolidationResults
    \/ CallValidate
    \/ CallMergeOverlappingGroups
    \/ CallAlgorithmsInEitherOrder
    \/ CallDetectWithPatchedRegistry
    \/ CallRunDetectionTwice
    \/ CallDetectDuplicates

SpecUnit == InitUnit /\ [][NextUnit]_vars

(***************************************************************************)
(* Claims about direct calls (checked under SpecUnit).                     *)
(***************************************************************************)
\* the groups of ret that hold file id
GroupsOf(id) == {k \in 1..Len(ret.groups) : id \in FileIdSet(ret.groups[k])}

\* the File Record carries a non-empty content hash
HasContentHash(f) == f.sha256 # NoneStr /\ f.sha256 # "" /\ f.sha256 # " "

\* C11: SHA256Detector.detect returns exactly the classes, of at least two
\* members, of the partition of the hash-carrying input files by hash: two
\* files are in the same returned group iff they carry the same non-empty
\* content hash, every group has confidence and similarity 100.0, and a file
\* without a hash is in no group.
C11_ExactHashPartition ==
    call.op = "SHA256Detector.detect" =>
        /\ \A i, j \in Range(call.files) :
              i # j => ((GroupsOf(i) \cap GroupsOf(j) # {})
                        <=> (/\ HasContentHash(corpus[i])
                             /\ corpus[i].sha256 = corpus[j].sha256))
        /\ \A i \in Range(call.files) :
              /\ Cardinality(GroupsOf(i)) <= 1
              /\ ~HasContentHash(corpus[i]) => GroupsOf(i) = {}
        /\ \A k \in 1..Len(ret.groups) :
              /\ ret.groups[k].confidence_score = Rat(100, 1)
              /\ ret.groups[k].similarity_percentage = Rat(100, 1)
              /\ Len(ret.groups[k].files) >= 2
              /\ Cardinality(FileIdSet(ret.groups[k])) = Len(ret.groups[k].files)
              /\ FileIdSet(ret.groups[k]) \subseteq Range(call.files)

\* two files with the same hash were grouped next to a file without a hash
C11_Witness ==
    /\ call.op = "SHA256Detector.detect"
    /\ Len(ret.groups) = 1
    /\ Len(ret.groups[1].files) = 2
    /\ \E i \in Range(call.files) : ~HasContentHash(corpus[i]) /\ GroupsOf(i) = {}

\* the position of file id in the list the detector was called on
PositionOf(id) == CHOOSE p \in 1..Len(call.files) : call.files[p] = id

\* file x is similar enough to anchor a for the detector that was called
SimilarToAnchor(a, x) ==
    IF call.op = "PerceptualHashDetector.detect"
    THEN RLeq(call.config.perceptual_threshold,
              _calculate_similarity(corpus[a].perceptual_hash, corpus[x].perceptual_hash))
    ELSE _are_metadata_similar(corpus[a], corpus[x], call.config)

\* the files assigned to a group before the anchor of group k is visited
AssignedBefore(k) == UNION {FileIdSet(ret.groups[m]) : m \in 1..(k - 1)}

\* C12: in the greedy anchor clustering of the Perceptual and the Metadata
\* detector each returned group is an anchor followed, in input order, by
\* exactly the later files that were unassigned when the anchor was visited and
\* are similar enough to the anchor; groups come in the order of their anchors.
C12_AnchorClustering ==
    call.op \in {"PerceptualHashDetector.detect", "MetadataDetector.detect"} =>
        \A k \in 1..Len(ret.groups) :
            LET g == ret.groups[k].files
                anchor == g[1]
            IN /\ Len(g) >= 2
               /\ anchor \notin AssignedBefore(k)
               /\ \A m \in 1..(Len(g) - 1) : PositionOf(g[m]) < PositionOf(g[m + 1])
               /\ {g[m] : m \in 2..Len(g)}
                     = {x \in Range(call.files) :
                           /\ PositionOf(x) > PositionOf(anchor)
                           /\ x \notin AssignedBefore(k)
                           /\ SimilarToAnchor(anchor, x)}
               /\ k > 1 => PositionOf(ret.groups[k - 1].files[1]) < PositionOf(anchor)

\* a group holds two members that are not similar to each other, only to the
\* anchor
C12_Witness ==
    /\ call.op \in {"PerceptualHashDetector.detect", "MetadataDetector.detect"}
    /\ \E k \in 1..Len(ret.groups) :
          /\ Len(ret.groups[k].files) = 3
          /\ ~SimilarToAnchor(ret.groups[k].files[2], ret.groups[k].files[3])

\* bit b of hex digit x
Bit(x, b) == (x \div (2 ^ b)) % 2

\* the number of bit positions in which two hashes of equal length differ
BitsThatDiffer(h1, h2) ==
    Cardinality({<<k, b>> \in (1..Len(h1)) \X (0..3) : Bit(h1[k], b) # Bit(h2[k], b)})

\* C13: perceptual similarity is (maxDistance - hammingDistance)/maxDistance x
\* 100 with maxDistance = 4 x hex length (rounded to one decimal), is 100.0 for
\* any hash compared with itself, and is symmetric: sim(a,b) = sim(b,a).
C13_SimilarityReflexiveSymmetric ==
    call.op = "_calculate_similarity" =>
        /\ ret.value = _calculate_similarity(call.hash2, call.hash1)
        /\ (call.hash1 = call.hash2 /\ call.hash1 # NoHash) => ret.value = Rat(100, 1)
        /\ (call.hash1 # NoHash /\ Len(call.hash1) = Len(call.hash2)) =>
              LET maxDistance == 4 * Len(call.hash1)
              IN ret.value = Round1(Rat((maxDistance - BitsThatDiffer(call.hash1, call.hash2))
                                        * 100, maxDistance))

\* two different hashes of four digits were compared and are 93.8 similar
C13_Witness ==
    /\ call.op = "_calculate_similarity"
    /\ Len(call.hash1) = 4
    /\ call.hash1 # call.hash2
    /\ ret.value = Rat(938, 10)

\* the configured fields, by position, that are non-null in both compared files
Comparable ==
    {k \in 1..Len(call.config.metadata_fields) :
        /\ corpus[1][call.config.metadata_fields[k]] # NoneInt
        /\ corpus[2][call.config.metadata_fields[k]] # NoneInt}

\* the difference of the two files in a field
Difference(field) ==
    IF corpus[1][field] >= corpus[2][field]
    THEN corpus[1][field] - corpus[2][field]
    ELSE corpus[2][field] - corpus[1][field]

\* the comparable field at position k matches
FieldMatches(k) ==
    LET field == call.config.metadata_fields[k]
    IN IF field = "file_size" THEN Difference(field) <= call.config.size_tolerance
       ELSE IF field \in {"created_at", "modified_at"}
            THEN Difference(field) <= call.config.time_tolerance
       ELSE corpus[1][field] = corpus[2][field]

\* C14: two files are metadata-similar iff at least one configured field is
\* non-null in both and at least half of the comparable fields match, where
\* file_size matches iff the difference is <= the size tolerance, timestamps
\* iff they differ by <= the time tolerance, width and height iff equal.
C14_MetadataSimilarity ==
    call.op = "_are_metadata_similar" =>
        (ret.value <=> (/\ Comparable # {}
                        /\ 2 * Cardinality({k \in Comparable : FieldMatches(k)})
                              >= Cardinality(Comparable)))

\* sizes that differ by exactly the tolerance are similar on file_size
C14_Witness ==
    /\ call.op = "_are_metadata_similar"
    /\ call.config.metadata_fields = <<"file_size">>
    /\ Difference("file_size") = call.config.size_tolerance
    /\ call.config.size_tolerance = 1024
    /\ ret.value

\* the files the source brings: those whose ids the target lacked
FilesGained == SelectSeq(call.source.files,
                         LAMBDA f : f \notin Range(call.target.files))

\* (targetConfidence x targetFileCount + sourceConfidence x sourceFileCount)
\* / (targetFileCount + sourceFileCount), the counts taken before the merge
WeightedAverage ==
    LET tc == call.target.confidence_score
        sc == call.source.confidence_score
        tn == Len(call.target.files)
        sn == Len(call.source.files)
    IN Rat(tc.n * tn * sc.d + sc.n * sn * tc.d, tc.d * sc.d * (tn + sn))

\* x is a number of one decimal place nearest to q
NearestTenth(x, q) ==
    /\ 10 % x.d = 0
    /\ Abs(x.n * q.d - q.n * x.d) * 20 <= x.d * q.d

\* C15 as stated: merging a source group into a target group yields the
\* target's files followed by the source's files whose ids the target
\* lacked, a confidence that is the weighted average itself, and the maximum
\* of the two similarities.
C15_MergeAsStated ==
    call.op = "_merge_groups" =>
        /\ ret.value.files = call.target.files \o FilesGained
        /\ ret.value.confidence_score = WeightedAverage
        /\ ret.value.similarity_percentage =
               RMax(call.target.similarity_percentage, call.source.similarity_percentage)

\* C15: merging a source group into a target group yields the target's files
\* followed by the source's files whose ids the target lacked, a confidence
\* that is the weighted average (file counts taken before the merge) rounded
\* to one decimal place, and the maximum of the two similarities.
C15_MergeRoundedAverage ==
    call.op = "_merge_groups" =>
        /\ ret.value.files = call.target.files \o FilesGained
        /\ NearestTenth(ret.value.confidence_score, WeightedAverage)
        /\ ret.value.similarity_percentage =
               RMax(call.target.similarity_percentage, call.source.similarity_percentage)

\* sizes 2 (confidence 90) and 3 (confidence 70, one shared file) give 4
\* files and confidence 78.0
C15_Witness ==
    /\ call.op = "_merge_groups"
    /\ Len(call.target.files) = 2 /\ call.target.confidence_score = Rat(90, 1)
    /\ Len(call.source.files) = 3 /\ call.source.confidence_score = Rat(70, 1)
    /\ Cardinality(Range(call.target.files) \cap Range(call.source.files)) = 1
    /\ Len(ret.value.files) = 4
    /\ ret.value.confidence_score = Rat(78, 1)

\* (x - lo)/(hi - lo), 0 when hi = lo
Normalize(x, lo, hi) == IF hi > lo THEN Rat(x - lo, hi - lo) ELSE Zero

\* timeScore x 40: 1 - normalize(earliest timestamp available, min, max), 0 if
\* the file has no timestamp or the group has no two distinct timestamps
StatedTimeScore(id) ==
    LET times == {FileTime(corpus[i]) : i \in {j \in DOMAIN corpus :
                                                FileTime(corpus[j]) # NoneInt}}
        t == FileTime(corpus[id])
    IN IF t = NoneInt \/ times = {} THEN Zero
       ELSE LET x == Normalize(t, SetMin(times), SetMax(times))
            IN IF SetMax(times) > SetMin(times) THEN Rat(40 * (x.d - x.n), x.d) ELSE Zero

\* sizeScore x 30: normalize(size, min, max) over the sizes of the group
StatedSizeScore(id) ==
    LET sizes == {corpus[i].file_size : i \in DOMAIN corpus}
        x == Normalize(corpus[id].file_size, SetMin(sizes), SetMax(sizes))
    IN Rat(30 * x.n, x.d)

\* qualityScore x 20: min(1, width x height / (1920 x 1080)), 0 if no dimensions
StatedQualityScore(id) ==
    LET f == corpus[id]
    IN IF f.width = NoneInt \/ f.height = NoneInt THEN Zero
       ELSE RMin(Rat(20, 1), Rat(20 * f.width * f.height, PixelNorm))

\* timeScore x 0.40 + sizeScore x 0.30 + qualityScore x 0.20 + pathScore x 0.10,
\* in hundredths
StatedScore(id) ==
    RAdd(RAdd(StatedTimeScore(id), StatedSizeScore(id)),
         RAdd(StatedQualityScore(id),
              Rat(_calculate_path_score(corpus[id].file_path), 1)))

\* the first file, in the group's order, that attains the maximum of the score
FirstMaximum(files) ==
    files[CHOOSE k \in 1..Len(files) :
            /\ \A j \in 1..Len(files) : RLeq(StatedScore(files[j]), StatedScore(files[k]))
            /\ \A j \in 1..(k - 1) : RLess(StatedScore(files[j]), StatedScore(files[k]))]

\* the group has no timestamps, no dimensions and equal path scores
OnlySizesDiffer ==
    \A i \in DOMAIN corpus :
        /\ FileTime(corpus[i]) = NoneInt
        /\ corpus[i].width = NoneInt /\ corpus[i].height = NoneInt
        /\ _calculate_path_score(corpus[i].file_path)
               = _calculate_path_score(corpus[1].file_path)

\* C16: original nomination flags the first file, in the group's file order,
\* that attains the maximum of timeScore x 0.40 + sizeScore x 0.30 +
\* qualityScore x 0.20 + pathScore x 0.10; in a group whose files have no
\* timestamps, no dimensions and equal path scores, the file with the largest
\* size is nominated.
C16_NominatesFirstMaximum ==
    call.op = "_suggest_original" =>
        /\ \A id \in Range(call.group.files) :
              fstate[id].is_original <=> id = FirstMaximum(call.group.files)
        /\ OnlySizesDiffer =>
              \A id \in Range(call.group.files) :
                  fstate[id].is_original =>
                      \A j \in DOMAIN corpus : corpus[j].file_size <= corpus[id].file_size

\* the number of raw groups the algorithms of the run handed over
RawGroupCount == SeqSum([k \in 1..Len(callLog) |-> Len(RunGroups(k))])

\* C17: in the results detect_duplicates returns, total_groups_found is the
\* number of groups in results.groups, total_duplicates_found is the sum of
\* their file counts and total_files_scanned is the number of input files.
C17_CountsOfReturnedGroups ==
    results.returned =>
        /\ results.total_groups_found = Len(results.groups)
        /\ results.total_duplicates_found =
               SeqSum([i \in 1..Len(results.groups) |-> Len(results.groups[i].files)])
        /\ results.total_files_scanned = Cardinality(DOMAIN corpus)

\* a run whose consolidation left fewer groups than the algorithms found
C17_Witness ==
    /\ NormalReturn
    /\ results.groups # <<>>
    /\ Len(results.groups) < RawGroupCount
    /\ results.total_groups_found = Len(results.groups)

\* the kinds of violation present in the groups of the call
SharedFileId ==
    \E i \in 1..Len(call.groups), j \in 1..Len(call.groups) :
        i < j /\ FileIdSet(call.groups[i]) \cap FileIdSet(call.groups[j]) # {}

SmallGroup == \E i \in 1..Len(call.groups) : Len(call.groups[i].files) < 2

ConfidenceOutOfRange ==
    \E i \in 1..Len(call.groups) : ~InRange(call.groups[i].confidence_score)

SeveralOriginals ==
    \E i \in 1..Len(call.groups) :
        Cardinality({f \in FileIdSet(call.groups[i]) : call.fstate[f].is_original}) > 1

\* the returned list has a message of this kind
Reported(kind) == \E k \in 1..Len(ret.value) : ret.value[k].kind = kind

\* C18: validate_consolidation_results never raises and never modifies the
\* groups; it returns an empty list exactly when no file id occurs in two
\* groups, every group has at least two files, every confidence is in
\* [0, 100] and no group has more than one original; otherwise it returns at
\* least one message for each kind of violation present.
C18_ValidationReportsEveryKind ==
    call.op = "validate_consolidation_results" =>
        /\ ~ret.raised
        /\ ret.groups = call.groups /\ fstate = call.fstate
        /\ ret.value = <<>> <=>
               ~(SharedFileId \/ SmallGroup \/ ConfidenceOutOfRange \/ SeveralOriginals)
        /\ SharedFileId => Reported("appear in multiple groups")
        /\ SmallGroup => Reported("fewer than 2 files")
        /\ ConfidenceOutOfRange => Reported("invalid confidence score")
        /\ SeveralOriginals => Reported("multiple files marked as original")

\* a call with all four kinds of violation present, and a call with none
C18_Witness ==
    /\ call.op = "validate_consolidation_results"
    /\ SharedFileId /\ SmallGroup /\ ConfidenceOutOfRange /\ SeveralOriginals
    /\ Len(ret.value) >= 4

\* the constraints of a config, by the message that reports their violation
ConstraintHolds(c) ==
    LET sum == RAdd(RAdd(c.feature_weight_perceptual, c.feature_weight_color),
                    c.feature_weight_edge)
    IN [m \in {"perceptual_threshold must be between 0 and 100",
               "perceptual_hash_size must be 8, 16, or 32",
               "size_tolerance must be non-negative",
               "time_tolerance must be non-negative",
               "min_confidence_threshold must be between 0 and 100",
               "max_results_per_group must be positive",
               "feature weights must sum to 1.0"} |->
        CASE m = "perceptual_threshold must be between 0 and 100" ->
                 InRange(c.perceptual_threshold)
          [] m = "perceptual_hash_size must be 8, 16, or 32" ->
                 c.perceptual_hash_size \in {8, 16, 32}
          [] m = "size_tolerance must be non-negative" -> c.size_tolerance >= 0
          [] m = "time_tolerance must be non-negative" -> c.time_tolerance >= 0
          [] m = "min_confidence_threshold must be between 0 and 100" ->
                 InRange(c.min_confidence_threshold)
          [] m = "max_results_per_group must be positive" -> c.max_results_per_group > 0
          [] m = "feature weights must sum to 1.0" ->
                 RLeq(Rat(99, 100), sum) /\ RLeq(sum, Rat(101, 100))]

\* C19: DetectionConfig.validate() returns an empty list exactly when all
\* constraints hold, reports every violated constraint otherwise, and leaves
\* every field of the config unchanged.
C19_ValidateReportsEveryViolation ==
    call.op = "validate" =>
        LET holds == ConstraintHolds(call.config)
        IN /\ ret.value = {} <=> \A m \in DOMAIN holds : holds[m]
           /\ \A m \in DOMAIN holds : ~holds[m] => m \in ret.value
           /\ ret.config = call.config

\* a config that violates all seven constraints, reported with seven messages
C19_Witness ==
    /\ call.op = "validate"
    /\ \A m \in DOMAIN ConstraintHolds(call.config) : ~ConstraintHolds(call.config)[m]
    /\ Cardinality(ret.value) = 7

\* the merge pass as stated: a group is merged into the first already-placed
\* group whose current files it intersects, and placed as a new group only if
\* there is none
RECURSIVE StatedMergePass(_, _, _)
StatedMergePass(groups, i, placed) ==
    IF i > Len(groups) THEN placed
    ELSE LET hit == {k \in 1..Len(placed) :
                        FileIdSet(placed[k]) \cap FileIdSet(groups[i]) # {}}
         IN IF hit = {}
            THEN StatedMergePass(groups, i + 1, Append(placed, groups[i]))
            ELSE StatedMergePass(groups, i + 1,
                     [placed EXCEPT ![SetMin(hit)] = _merge_groups(@, groups[i])])

\* C20: in the cross-algorithm merge pass a group is placed as a new merged
\* group only if its file-id set is disjoint from the current file-id set of
\* every already-placed group (files gained through earlier merges included);
\* otherwise it is merged into the first already-placed group it intersects.
C20_PlacedOnlyIfDisjoint ==
    call.op = "_merge_overlapping_groups" =>
        ret.value = StatedMergePass(call.groups, 1, <<>>)

(***************************************************************************)
(* Claims about the consolidated list (checked under SpecCons).            *)
(***************************************************************************)
\* (confidence, file count, total size) of g is lexicographically greater
\* than that of h
RankedAbove(g, h) ==
    \/ RLess(h.confidence_score, g.confidence_score)
    \/ /\ g.confidence_score = h.confidence_score
       /\ \/ Len(g.files) > Len(h.files)
          \/ /\ Len(g.files) = Len(h.files)
             /\ SeqSum([i \in 1..Len(g.files) |-> corpus[g.files[i]].file_size])
                  > SeqSum([i \in 1..Len(h.files) |-> corpus[h.files[i]].file_size])

\* the list is sorted by descending key, groups of equal keys in the order
\* they had before the sort (the order of their ids)
StablyRanked(groups) ==
    \A i, j \in 1..Len(groups) :
        i < j => \/ RankedAbove(groups[i], groups[j])
                 \/ /\ ~RankedAbove(groups[j], groups[i])
                    /\ groups[i].id < groups[j].id

\* C21 as stated: the list returned by consolidate_results is ranked by the
\* keys (confidence, file count, total size) of the groups as returned,
\* groups with equal keys in their order from before the sort.
C21_RankedAsReturned ==
    consResult.returned => StablyRanked(consResult.groups)

\* C21: the list returned by consolidate_results holds the groups in the
\* order of the stable sort by descending (confidence, file count, total
\* size), the keys taken when the groups were ranked, before the per-group
\* limit cut their file lists.
C21_RankedBeforeLimit ==
    consResult.returned =>
        /\ StablyRanked(consResult.ranked)
        /\ Len(consResult.groups) = Len(consResult.ranked)
        /\ \A i \in 1..Len(consResult.groups) :
              consResult.groups[i].id = consResult.ranked[i].id

\* three groups returned: two of equal keys in their earlier order, and one
\* that the sort moved in front of an earlier group
C21_Witness ==
    /\ consResult.returned
    /\ \E i, j \in 1..Len(consResult.ranked) :
          /\ i < j
          /\ ~RankedAbove(consResult.ranked[i], consResult.ranked[j])
          /\ consResult.ranked[i].id < consResult.ranked[j].id
    /\ \E i, j \in 1..Len(consResult.ranked) :
          /\ i < j
          /\ consResult.ranked[i].id > consResult.ranked[j].id

\* C22: after consolidation every returned group has at most
\* config.max_results_per_group files; a group that exceeded the limit keeps
\* exactly the first max_results_per_group files of its file order before
\* trimming, in the same order; a group within the limit is unchanged by the
\* trimming stage.
C22_FirstFilesSurvive ==
    consResult.returned =>
        \A i \in 1..Len(consResult.groups) :
            LET before == consResult.ranked[i]
                after == consResult.groups[i]
                limit == consConfig.max_results_per_group
            IN /\ Len(after.files) <= limit
               /\ Len(before.files) > limit =>
                     /\ Len(after.files) = limit
                     /\ \A k \in 1..limit : after.files[k] = before.files[k]
               /\ Len(before.files) <= limit => after = before

\* one returned group was cut to the limit and another was within it
C22_Witness ==
    /\ consResult.returned
    /\ \E i, j \in 1..Len(consResult.groups) :
          /\ Len(consResult.ranked[i].files) > consConfig.max_results_per_group
          /\ Len(consResult.groups[i].files) = consConfig.max_results_per_group
          /\ Len(consResult.ranked[j].files) <= consConfig.max_results_per_group
          /\ consResult.groups[j] = consResult.ranked[j]

\* C23: every group returned by consolidate_results contains exactly one file
\* flagged is_original: an original is nominated for each group and is still
\* a member of the group that is returned.
C23_ExactlyOneOriginal ==
    consResult.returned =>
        \A i \in 1..Len(consResult.groups) :
            Cardinality(Originals(consResult.groups[i])) = 1

(***************************************************************************)
(* Further claims about a detection run (checked under Spec).              *)
(***************************************************************************)
\* the settings a detector compares with
ComparisonSettings(config) ==
    [perceptual_threshold |-> config.perceptual_threshold,
     metadata_fields |-> config.metadata_fields,
     size_tolerance |-> config.size_tolerance,
     time_tolerance |-> config.time_tolerance]

\* C24: one configuration is bound to a detection run: the thresholds,
\* tolerances and field list the algorithms that ran compare with are those
\* of the mode-specific configuration reported in results.config (in
\* metadata mode: size tolerance 1024 and time tolerance 300).
C24_OneConfigPerRun ==
    NormalReturn =>
        \A k \in 1..Len(callLog) : \A a \in 1..Len(algorithms) :
            algorithms[a].kind = callLog[k].name =>
                ComparisonSettings(algorithms[a].config) = ComparisonSettings(results.config)

\* C25: no two algorithms of one run write the mutable fields of the same
\* File Record, so a file's final per-file confidence does not depend on the
\* order in which the algorithms ran.
C25_WritesDoNotCollide ==
    call.op = "run_in_either_order" =>
        /\ ret.written_first \cap ret.written_second = {}
        /\ \A i \in DOMAIN fstate :
              fstate[i].confidence_score = ret.reversed[i].confidence_score

\* the three detect calls, and the files of the groups a call returned
DetectCalls == {"SHA256Detector.detect", "PerceptualHashDetector.detect",
                "MetadataDetector.detect"}

Grouped == UNION {FileIdSet(ret.groups[k]) : k \in 1..Len(ret.groups)}

C27_RegistrySuppliedMockRuns ==
    (/\ call.op = "detect_duplicates(patched registry)"
     /\ call.mode = "exact"
     /\ Len(call.files) = 2)
    => /\ ret.results.returned
       /\ ret.results.total_files_scanned = 2
       /\ ret.results.total_groups_found = 1
       /\ Len(ret.results.groups) = 1

\* C29: after every run_detection call on an instance, in any sequence of
\* calls, performance.groups_found equals the number of groups that call
\* returned, the calls that return [] because no file was processable or
\* because detect failed included.
C29_GroupsFoundOfLastCall ==
    call.op = "run_detection twice" =>
        /\ ret.first.performance.groups_found = Len(ret.first.groups)
        /\ ret.second.performance.groups_found = Len(ret.second.groups)

\* C28: the groups returned by a single detect call of any detector are
\* pairwise disjoint: no File Record of the input, whose ids are distinct, is
\* in two of them.
C28_GroupsOfOneCallDisjoint ==
    call.op \in DetectCalls =>
        \A k, l \in 1..Len(ret.groups) :
            k # l => FileIdSet(ret.groups[k]) \cap FileIdSet(ret.groups[l]) = {}

\* a call returned two groups, and a file left out of the first would have
\* matched a member of it
C28_Witness ==
    /\ call.op \in DetectCalls
    /\ Len(ret.groups) >= 2
    /\ call.op = "PerceptualHashDetector.detect" =>
          \E x \in FileIdSet(ret.groups[1]), y \in FileIdSet(ret.groups[2]) :
              RLeq(call.config.perceptual_threshold,
                   _calculate_similarity(corpus[x].perceptual_hash,
                                         corpus[y].perceptual_hash))
    /\ call.op = "MetadataDetector.detect" =>
          \E x \in FileIdSet(ret.groups[1]), y \in FileIdSet(ret.groups[2]) :
              _are_metadata_similar(corpus[x], corpus[y], call.config)
    /\ call.op # "SHA256Detector.detect"

\* C30: in every result of detect_duplicates over files with distinct ids,
\* total_duplicates_found is at most total_files_scanned, so that the
\* duplicate percentage lies in [0, 100].
C30_DuplicatesAtMostFilesScanned ==
    (call.op = "detect_duplicates" /\ ret.results.returned) =>
        ret.results.total_duplicates_found <= ret.results.total_files_scanned

====
